---- MODULE Spec2Model ----
(***************************************************************************)
(* Model of the test-case generation pipeline:                             *)
(*   app/services/validator.py  (strip_fences, repair_truncated_json,      *)
(*                               parse_and_validate, _validate_structure)  *)
(*   app/services/generator.py  (generate_test_cases, the retry loop)      *)
(*   app/services/llm_client.py (the faults LLMClient.generate raises)     *)
(*   app/services/scorer.py     (score_test_cases)                         *)
(*   app/core/models.py         (the TestCase / LLMOutput schema)          *)
(*   app/api/routes.py          (generate_tests, the response classes)     *)
(*   app/main.py                (global_exception_handler)                 *)
(*   app/api/dependencies.py    (get_llm_client, the client's lifetime)    *)
(*                                                                         *)
(* A text is a sequence of one-character strings.  A JSON value is a       *)
(* tagged pair <<tag, payload>>:                                           *)
(*   <<"str", chars>>   <<"num", chars of the literal>>   <<"lit", <<w>>>> *)
(*   <<"arr", <<v1, ..., vn>>>>   <<"obj", << <<k1, v1>>, ... >>>>          *)
(* with object keys kept in first-insertion order, a repeated key keeping  *)
(* its position and taking the last value, as a Python dict does.          *)
(***************************************************************************)
EXTENDS Integers, Sequences, FiniteSets, TLC

QUOTE  == "\""
BSLASH == "\\"
\* The backquote character (the lexer admits no backquote inside a string).
BTICK  == "BACKQUOTE"
NL     == "\n"

\* The whitespace of the modelled texts: what str.strip() removes, the regex
\* class \s matches and json.loads skips between tokens.
Whitespace == {" ", "\n", "\t", "\r"}

Digits == {"0", "1", "2", "3", "4", "5", "6", "7", "8", "9"}
HexDigits == Digits \cup {"a", "b", "c", "d", "e", "f", "A", "B", "C", "D", "E", "F"}

Min2(a, b) == IF a < b THEN a ELSE b
Max2(a, b) == IF a > b THEN a ELSE b

\* s[i..] and s[..i-1] in Python slice terms (1-based i).
Drop(s, i) == SubSeq(s, i, Len(s))
Take(s, n) == SubSeq(s, 1, Min2(n, Len(s)))

\* c * n
Repeat(c, n) == [k \in 1..n |-> c]

(***************************************************************************)
(* The loops over the characters of a text are folded by halves, so that   *)
(* a text of n characters nests about log n evaluations instead of n.      *)
(***************************************************************************)
RECURSIVE Flatten(_, _, _)
\* pieces[lo] \o ... \o pieces[hi]
Flatten(pieces, lo, hi) ==
    IF lo > hi THEN <<>>
    ELSE IF lo = hi THEN pieces[lo]
    ELSE LET mid == (lo + hi) \div 2
         IN  Flatten(pieces, lo, mid) \o Flatten(pieces, mid + 1, hi)

RECURSIVE BackslashRun(_, _, _)
\* Number of consecutive backslashes of s that end right before index j and
\* start no lower than index lo.
BackslashRun(s, lo, j) ==
    IF j - 1 >= lo /\ s[j - 1] = BSLASH THEN 1 + BackslashRun(s, lo, j - 1) ELSE 0

\* TRUE iff word w occurs in s starting at index i.
StartsWithAt(s, i, w) ==
    /\ i + Len(w) - 1 <= Len(s)
    /\ \A k \in 1..Len(w) : s[i + k - 1] = w[k]

(***************************************************************************)
(* strip_fences: re.sub of the fence pattern (three backquotes, optionally *)
(* followed by json) with the empty string, then str.strip().             *)
(***************************************************************************)
FenceMark == <<BTICK, BTICK, BTICK>>
JsonTag   == <<"j", "s", "o", "n">>

\* Length of the match of the fence pattern at index i (0 when none).
FenceMatchLen(s, i) ==
    IF StartsWithAt(s, i, FenceMark)
    THEN (IF StartsWithAt(s, i + 3, JsonTag) THEN 7 ELSE 3)
    ELSE 0

\* One step of the substitution at index i, entered with skip characters of
\* the current match still to consume: the characters left to consume after
\* it, and what it emits.
FenceStep(s, i, skip) ==
    IF skip > 0 THEN [skip |-> skip - 1, out |-> <<>>]
    ELSE IF FenceMatchLen(s, i) > 0 THEN [skip |-> FenceMatchLen(s, i) - 1, out |-> <<>>]
    ELSE [skip |-> 0, out |-> <<s[i]>>]

\* A scan of a segment is the tuple of its results for skip = 0..6 on entry
\* (entry k at position k + 1).
FenceThen(l, r, k) ==
    LET a == l[k + 1]
        b == r[a.skip + 1]
    IN  [skip |-> b.skip, out |-> a.out \o b.out]

RECURSIVE FenceScan(_, _, _)
\* The substitution over s[lo..hi].
FenceScan(s, lo, hi) ==
    IF lo > hi
    THEN << [skip |-> 0, out |-> <<>>], [skip |-> 1, out |-> <<>>], [skip |-> 2, out |-> <<>>],
            [skip |-> 3, out |-> <<>>], [skip |-> 4, out |-> <<>>], [skip |-> 5, out |-> <<>>],
            [skip |-> 6, out |-> <<>>] >>
    ELSE IF lo = hi
    THEN << FenceStep(s, lo, 0), FenceStep(s, lo, 1), FenceStep(s, lo, 2), FenceStep(s, lo, 3),
            FenceStep(s, lo, 4), FenceStep(s, lo, 5), FenceStep(s, lo, 6) >>
    ELSE LET mid == (lo + hi) \div 2
             l == FenceScan(s, lo, mid)
             r == FenceScan(s, mid + 1, hi)
         IN  << FenceThen(l, r, 0), FenceThen(l, r, 1), FenceThen(l, r, 2), FenceThen(l, r, 3),
                FenceThen(l, r, 4), FenceThen(l, r, 5), FenceThen(l, r, 6) >>

\* re.sub(fence pattern, "", s): leftmost matches, not overlapping.
RemoveFences(s) == FenceScan(s, 1, Len(s))[1].out

PyStrip(s) ==
    LET keep == {i \in 1..Len(s) : s[i] \notin Whitespace}
    IN  IF keep = {} THEN <<>>
        ELSE LET lo == CHOOSE i \in keep : \A j \in keep : i <= j
                 hi == CHOOSE i \in keep : \A j \in keep : i >= j
             IN  SubSeq(s, lo, hi)

\* Variant: the text is stripped before the fences are removed.
strip_fencesStripFirst(raw) == RemoveFences(PyStrip(raw))

\* re.sub(r"```(?:json)?|```", "", raw).strip()
strip_fences(raw) == PyStrip(RemoveFences(raw))

(***************************************************************************)
(* json.loads (CPython json.decoder / json.scanner), strict mode.          *)
(* A parse result is [ok, val, pos]: pos is the index after the value.     *)
(***************************************************************************)
Fail == [ok |-> FALSE, val |-> <<>>, pos |-> 0]
Ok(v, p) == [ok |-> TRUE, val |-> v, pos |-> p]

RECURSIVE SkipWS(_, _)
\* Index after the maximal run of whitespace starting at i.
SkipWS(s, i) ==
    IF i <= Len(s) /\ s[i] \in Whitespace THEN SkipWS(s, i + 1) ELSE i

\* Characters json rejects unescaped inside a string literal (strict=True).
ControlChars == {"\n", "\t", "\r"}

SimpleEscapes == {QUOTE, BSLASH, "/", "b", "f", "n", "r", "t"}

\* What a simple escape \e decodes to.
Unescape(e) ==
    CASE e = "n" -> "\n"
      [] e = "t" -> "\t"
      [] e = "r" -> "\r"
      [] e = "b" -> "\\b"
      [] e = "f" -> "\\f"
      [] OTHER   -> e

\* Index j inside the literal opened at q starts an escape: a backslash
\* preceded by an even number of backslashes of the literal.
EscapeStart(s, q, j) == s[j] = BSLASH /\ BackslashRun(s, q + 1, j) % 2 = 0

\* Index j is the character right after a backslash that starts an escape.
Escaped(s, q, j) == j - 1 > q /\ EscapeStart(s, q, j - 1)

\* The closing quote of the literal opened at q: the first quote after q
\* that is not escaped (0 when there is none).
ClosingQuote(s, q) ==
    LET cand == {j \in (q + 1)..Len(s) : s[j] = QUOTE /\ ~Escaped(s, q, j)}
    IN  IF cand = {} THEN 0 ELSE CHOOSE j \in cand : \A k \in cand : j <= k

\* The character at j of the literal opened at q is acceptable.
StrCharOk(s, q, c, j) ==
    IF Escaped(s, q, j)
    THEN \/ s[j] \in SimpleEscapes
         \/ /\ s[j] = "u"
            /\ j + 4 < c
            /\ \A k \in 1..4 : s[j + k] \in HexDigits
    ELSE s[j] \notin ControlChars

\* What the character at j contributes to the decoded string.
StrPiece(s, q, j) ==
    IF Escaped(s, q, j)
    THEN (IF s[j] = "u" THEN <<"\\u">> ELSE <<Unescape(s[j])>>)
    ELSE IF EscapeStart(s, q, j) THEN <<>>
    ELSE <<s[j]>>

\* The literal opened at q and closed at c (c = 0: unterminated).
StrUpTo(s, q, c) ==
    IF c = 0 \/ \E j \in (q + 1)..(c - 1) : ~StrCharOk(s, q, c, j) THEN Fail
    ELSE Ok(<<"str", Flatten([j \in 1..(c - 1) |-> IF j <= q THEN <<>> ELSE StrPiece(s, q, j)],
                             q + 1, c - 1)>>, c + 1)

\* py_scanstring: the literal whose opening quote is at q.
StrBody(s, q) == StrUpTo(s, q, ClosingQuote(s, q))

RECURSIVE DigitsEnd(_, _)
\* Index after the run of digits starting at i.
DigitsEnd(s, i) ==
    IF i <= Len(s) /\ s[i] \in Digits THEN DigitsEnd(s, i + 1) ELSE i

\* The parts of NUMBER_RE = (-?(?:0|[1-9]\d*))(\.\d+)?([eE][-+]?\d+)?
\* each given the index a reached by the part before it (0: no match).
\* -?
SignEnd(s, i) == IF i <= Len(s) /\ s[i] = "-" THEN i + 1 ELSE i

\* (?:0|[1-9]\d*)
IntEnd(s, a) ==
    IF a <= Len(s) /\ s[a] = "0" THEN a + 1
    ELSE IF a <= Len(s) /\ s[a] \in Digits THEN DigitsEnd(s, a)
    ELSE 0

\* (\.\d+)?
FracEnd(s, b) ==
    IF b > 0 /\ b + 1 <= Len(s) /\ s[b] = "." /\ s[b + 1] \in Digits
    THEN DigitsEnd(s, b + 1) ELSE b

\* [eE][-+]? : the index where the digits of the exponent must start.
ExpDigits(s, c) ==
    IF c > 0 /\ c + 1 <= Len(s) /\ s[c] \in {"e", "E"} /\ s[c + 1] \in {"+", "-"}
    THEN c + 2 ELSE c + 1

\* ([eE][-+]?\d+)?
ExpEnd(s, c) ==
    IF c > 0 /\ c <= Len(s) /\ s[c] \in {"e", "E"}
       /\ ExpDigits(s, c) <= Len(s) /\ s[ExpDigits(s, c)] \in Digits
    THEN DigitsEnd(s, ExpDigits(s, c)) ELSE c

\* End of the match of NUMBER_RE at index i, or 0 when it does not match.
NumberEnd(s, i) == ExpEnd(s, FracEnd(s, IntEnd(s, SignEnd(s, i))))


\* dict[k] = v on an ordered list of pairs.
DictPut(pairs, k, v) ==
    IF \E n \in 1..Len(pairs) : pairs[n][1] = k
    THEN LET n == CHOOSE m \in 1..Len(pairs) : pairs[m][1] = k
         IN  SubSeq(pairs, 1, n - 1) \o << <<k, v>> >> \o SubSeq(pairs, n + 1, Len(pairs))
    ELSE Append(pairs, <<k, v>>)

RECURSIVE ParseValue(_, _), ArrItems(_, _, _), ObjItems(_, _, _)

\* scan_once: the value starting exactly at index i.
ParseValue(s, i) ==
    IF i > Len(s) THEN Fail
    ELSE IF s[i] = QUOTE THEN StrBody(s, i)
    ELSE IF s[i] = "{" THEN
        (IF SkipWS(s, i + 1) <= Len(s) /\ s[SkipWS(s, i + 1)] = "}"
         THEN Ok(<<"obj", <<>>>>, SkipWS(s, i + 1) + 1)
         ELSE ObjItems(s, SkipWS(s, i + 1), <<>>))
    ELSE IF s[i] = "[" THEN
        (IF SkipWS(s, i + 1) <= Len(s) /\ s[SkipWS(s, i + 1)] = "]"
         THEN Ok(<<"arr", <<>>>>, SkipWS(s, i + 1) + 1)
         ELSE ArrItems(s, SkipWS(s, i + 1), <<>>))
    ELSE IF StartsWithAt(s, i, <<"n", "u", "l", "l">>)  THEN Ok(<<"lit", <<"null">>>>, i + 4)
    ELSE IF StartsWithAt(s, i, <<"t", "r", "u", "e">>)  THEN Ok(<<"lit", <<"true">>>>, i + 4)
    ELSE IF StartsWithAt(s, i, <<"f", "a", "l", "s", "e">>) THEN Ok(<<"lit", <<"false">>>>, i + 5)
    ELSE IF NumberEnd(s, i) > 0
         THEN Ok(<<"num", SubSeq(s, i, NumberEnd(s, i) - 1)>>, NumberEnd(s, i))
    ELSE IF StartsWithAt(s, i, <<"N", "a", "N">>) THEN Ok(<<"lit", <<"NaN">>>>, i + 3)
    ELSE IF StartsWithAt(s, i, <<"I", "n", "f", "i", "n", "i", "t", "y">>)
         THEN Ok(<<"lit", <<"Infinity">>>>, i + 8)
    ELSE IF s[i] = "-" /\ StartsWithAt(s, i + 1, <<"I", "n", "f", "i", "n", "i", "t", "y">>)
         THEN Ok(<<"lit", <<"-Infinity">>>>, i + 9)
    ELSE Fail

\* JSONArray after an element: items is acc with the element appended, j the
\* index after the whitespace that follows the element.
ArrAfterItem(s, items, j) ==
    IF j > Len(s) THEN Fail
    ELSE IF s[j] = "]" THEN Ok(<<"arr", items>>, j + 1)
    ELSE IF s[j] = "," THEN ArrItems(s, SkipWS(s, j + 1), items)
    ELSE Fail

\* JSONArray with r the result of parsing the element.
ArrItem(s, acc, r) ==
    IF ~r.ok THEN Fail ELSE ArrAfterItem(s, Append(acc, r.val), SkipWS(s, r.pos))

\* JSONArray after the opening bracket and whitespace: a value is expected at i.
ArrItems(s, i, acc) == ArrItem(s, acc, ParseValue(s, i))

\* JSONObject after a member: d is acc with the member put, j the index after
\* the whitespace that follows the value.
ObjAfterMember(s, d, j) ==
    IF j > Len(s) THEN Fail
    ELSE IF s[j] = "}" THEN Ok(<<"obj", d>>, j + 1)
    ELSE IF s[j] = "," THEN ObjItems(s, SkipWS(s, j + 1), d)
    ELSE Fail

\* JSONObject with key the decoded key and r the result of parsing its value.
ObjMember(s, acc, key, r) ==
    IF ~r.ok THEN Fail ELSE ObjAfterMember(s, DictPut(acc, key, r.val), SkipWS(s, r.pos))

\* JSONObject after the key: c is the index after the whitespace that
\* follows it, where the colon must be.
ObjColon(s, acc, key, c) ==
    IF c > Len(s) \/ s[c] # ":" THEN Fail
    ELSE ObjMember(s, acc, key, ParseValue(s, SkipWS(s, c + 1)))

\* JSONObject with k the result of scanning the key.
ObjKey(s, acc, k) ==
    IF ~k.ok THEN Fail ELSE ObjColon(s, acc, k.val[2], SkipWS(s, k.pos))

\* JSONObject after the opening brace and whitespace: a key is expected at i.
ObjItems(s, i, acc) ==
    IF i > Len(s) \/ s[i] # QUOTE THEN Fail ELSE ObjKey(s, acc, StrBody(s, i))

\* raw_decode gave r: the document must end after trailing whitespace.
WholeText(s, r) ==
    IF r.ok /\ SkipWS(s, r.pos) = Len(s) + 1
    THEN [ok |-> TRUE, val |-> r.val]
    ELSE [ok |-> FALSE, val |-> <<>>]

\* json.loads(s): [ok, val]; ok = FALSE stands for JSONDecodeError.
json_loads(s) == WholeText(s, ParseValue(s, SkipWS(s, 1)))

(***************************************************************************)
(* repair_truncated_json: the five re.sub rewrites, the delimiter scan and *)
(* the appended closers.  Every pattern below ends with $ or is applied    *)
(* globally exactly as re.sub does (leftmost match, no rescan).            *)
(***************************************************************************)
\* Index of the quote that  ,?\s*"  reaches when matched at i (0 when none).
QuoteAfterPrefix(s, i) ==
    LET a == IF i <= Len(s) /\ s[i] = "," THEN i + 1 ELSE i
        b == SkipWS(s, a)
    IN  IF b <= Len(s) /\ s[b] = QUOTE THEN b ELSE 0

\* (?:[^"\\]|\\.)*$  matched right after the quote at q: every quote after q
\* follows a backslash that escapes it, and no escaping backslash is last or
\* before a newline (the dot matches no newline).
EscapedTail(s, q) ==
    /\ \A j \in (q + 1)..Len(s) :
          /\ s[j] = QUOTE => Escaped(s, q, j)
          /\ s[j] = NL => ~Escaped(s, q, j)
    /\ BackslashRun(s, q + 1, Len(s) + 1) % 2 = 0

\* s with the leftmost match of a pattern anchored at the end removed.
CutAtFirst(s, starts) ==
    IF starts = {} THEN s
    ELSE Take(s, (CHOOSE i \in starts : \A j \in starts : i <= j) - 1)

\* re.sub(r',?\s*"(?:[^"\\]|\\.)*$', "", s)
StripTruncatedString(s) ==
    CutAtFirst(s, {i \in 1..Len(s) :
        /\ QuoteAfterPrefix(s, i) > 0
        /\ EscapedTail(s, QuoteAfterPrefix(s, i))})

\* [^"]*"\s*:\s*$  matched right after the quote at q (q = 0: no quote):
\* c is the next quote, then whitespace, a colon, whitespace, the end.
KeyToEnd(s, q) ==
    /\ q > 0
    /\ \E c \in (q + 1)..Len(s) :
          /\ s[c] = QUOTE
          /\ \A j \in (q + 1)..(c - 1) : s[j] # QUOTE
          /\ SkipWS(s, c + 1) <= Len(s)
          /\ s[SkipWS(s, c + 1)] = ":"
          /\ SkipWS(s, SkipWS(s, c + 1) + 1) = Len(s) + 1

\* re.sub(r',?\s*"[^"]*"\s*:\s*$', "", s)
StripKeyNoValue(s) ==
    CutAtFirst(s, {i \in 1..Len(s) : KeyToEnd(s, QuoteAfterPrefix(s, i))})

\* re.sub(r',?\s*"[^"]*$', "", s)
StripIncompleteKey(s) ==
    CutAtFirst(s, {i \in 1..Len(s) :
        /\ QuoteAfterPrefix(s, i) > 0
        /\ \A j \in (QuoteAfterPrefix(s, i) + 1)..Len(s) : s[j] # QUOTE})

\* re.sub(r",(\s*[}\]])", r"\1", s): each comma that whitespace and a closer
\* follow is dropped (a match holds one comma, its first character, so
\* matches never overlap).
StripCommaBeforeCloser(s) ==
    Flatten([i \in 1..Len(s) |->
                IF /\ s[i] = ","
                   /\ SkipWS(s, i + 1) <= Len(s)
                   /\ s[SkipWS(s, i + 1)] \in {"}", "]"}
                THEN <<>> ELSE <<s[i]>>],
            1, Len(s))

\* re.sub(r",\s*$", "", s)
StripFinalComma(s) ==
    CutAtFirst(s, {i \in 1..Len(s) : s[i] = "," /\ SkipWS(s, i + 1) = Len(s) + 1})

\* The five rewrites in source order.
RewriteTail(s) ==
    StripFinalComma(
      StripCommaBeforeCloser(
        StripIncompleteKey(StripKeyNoValue(StripTruncatedString(s)))))

\* One iteration of the for-loop on character ch, entered with the flags
\* in_str and esc: the flags after it and what it adds to the two counters.
ScanStep(in_str, esc, ch) ==
    IF esc THEN [in_str |-> in_str, esc |-> FALSE, braces |-> 0, brackets |-> 0]
    ELSE IF ch = BSLASH /\ in_str
         THEN [in_str |-> in_str, esc |-> TRUE, braces |-> 0, brackets |-> 0]
    ELSE IF ch = QUOTE
         THEN [in_str |-> ~in_str, esc |-> esc, braces |-> 0, brackets |-> 0]
    ELSE IF in_str THEN [in_str |-> in_str, esc |-> esc, braces |-> 0, brackets |-> 0]
    ELSE IF ch = "{" THEN [in_str |-> in_str, esc |-> esc, braces |-> 1, brackets |-> 0]
    ELSE IF ch = "}" THEN [in_str |-> in_str, esc |-> esc, braces |-> -1, brackets |-> 0]
    ELSE IF ch = "[" THEN [in_str |-> in_str, esc |-> esc, braces |-> 0, brackets |-> 1]
    ELSE IF ch = "]" THEN [in_str |-> in_str, esc |-> esc, braces |-> 0, brackets |-> -1]
    ELSE [in_str |-> in_str, esc |-> esc, braces |-> 0, brackets |-> 0]

\* A scan of a segment is the tuple of its results for the four entry values
\* of the flags, at position FlagIndex.
FlagIndex(in_str, esc) == 1 + (IF in_str THEN 2 ELSE 0) + (IF esc THEN 1 ELSE 0)

ScanThen(l, r, n) ==
    LET a == l[n]
        b == r[FlagIndex(a.in_str, a.esc)]
    IN  [in_str |-> b.in_str, esc |-> b.esc,
         braces |-> a.braces + b.braces, brackets |-> a.brackets + b.brackets]

RECURSIVE ScanRange(_, _, _)
\* The for-loop over s[lo..hi].
ScanRange(s, lo, hi) ==
    IF lo > hi
    THEN << [in_str |-> FALSE, esc |-> FALSE, braces |-> 0, brackets |-> 0],
            [in_str |-> FALSE, esc |-> TRUE,  braces |-> 0, brackets |-> 0],
            [in_str |-> TRUE,  esc |-> FALSE, braces |-> 0, brackets |-> 0],
            [in_str |-> TRUE,  esc |-> TRUE,  braces |-> 0, brackets |-> 0] >>
    ELSE IF lo = hi
    THEN << ScanStep(FALSE, FALSE, s[lo]), ScanStep(FALSE, TRUE, s[lo]),
            ScanStep(TRUE, FALSE, s[lo]),  ScanStep(TRUE, TRUE, s[lo]) >>
    ELSE LET mid == (lo + hi) \div 2
             l == ScanRange(s, lo, mid)
             r == ScanRange(s, mid + 1, hi)
         IN  << ScanThen(l, r, 1), ScanThen(l, r, 2), ScanThen(l, r, 3), ScanThen(l, r, 4) >>

\* braces and brackets after the loop, started with in_str = esc = False.
CountUnmatched(s) == ScanRange(s, 1, Len(s))[FlagIndex(FALSE, FALSE)]

\* The closers appended after the scan: brackets first, then braces.
Closers(braces, brackets) ==
    Repeat("]", Max2(0, brackets)) \o Repeat("}", Max2(0, braces))

\* s += "]" * max(0, brackets); s += "}" * max(0, braces), then the final
\* cleanup of commas before closers; n holds the counters after the scan.
CloseOpen(t, n) == StripCommaBeforeCloser(t \o Closers(n.braces, n.brackets))

\* The scan and the closing of the rewritten text t.
Balance(t) == CloseOpen(t, CountUnmatched(t))

\* return json.loads(s) on the repaired text t.
Reparse(t, second) == [ok |-> second.ok, val |-> second.val, direct |-> FALSE, text |-> t]

RepairAndParse(t) == Reparse(t, json_loads(t))

\* Variant: the rewrites are applied without trying the text as it is.
TryAsIsSkipped(s, first) == RepairAndParse(Balance(RewriteTail(s)))

\* The as-is parse of the stripped text s gave first.
TryAsIs(s, first) ==
    IF first.ok
    THEN [ok |-> TRUE, val |-> first.val, direct |-> TRUE, text |-> s]
    ELSE RepairAndParse(Balance(RewriteTail(s)))

\* The body of repair_truncated_json after s = strip_fences(raw).
RepairStripped(s) == TryAsIs(s, json_loads(s))

\* repair_truncated_json(raw): ok = FALSE stands for JSONDecodeError;
\* direct tells that the first json.loads succeeded; text is what was parsed.
repair_truncated_json(raw) == RepairStripped(strip_fences(raw))

(***************************************************************************)
(* app/core/models.py: the LLMOutput / TestCase schema, and                *)
(* _validate_structure, which turns any violation into LLMParseError.      *)
(***************************************************************************)
TITLE_MIN == 5
TITLE_MAX == 200
PRECONDITIONS_MIN == 5
PRECONDITIONS_MAX == 200
STEPS_MIN == 2
STEPS_MAX == 4
EXPECTED_RESULT_MIN == 10
EXPECTED_RESULT_MAX == 200
TEST_CASES_MIN == 1

K_test_cases      == <<"t", "e", "s", "t", "_", "c", "a", "s", "e", "s">>
K_title           == <<"t", "i", "t", "l", "e">>
K_preconditions   == <<"p", "r", "e", "c", "o", "n", "d", "i", "t", "i", "o", "n", "s">>
K_steps           == <<"s", "t", "e", "p", "s">>
K_expected_result == <<"e", "x", "p", "e", "c", "t", "e", "d", "_", "r", "e", "s", "u", "l", "t">>

IsObj(v) == v[1] = "obj"
IsArr(v) == v[1] = "arr"
IsStr(v) == v[1] = "str"

HasKey(pairs, k) == \E n \in 1..Len(pairs) : pairs[n][1] = k
GetKey(pairs, k) == pairs[CHOOSE n \in 1..Len(pairs) : pairs[n][1] = k][2]

\* Variant: max_length is not enforced.
StrFieldNoMax(pairs, k, lo, hi) ==
    /\ HasKey(pairs, k)
    /\ IsStr(GetKey(pairs, k))
    /\ Len(GetKey(pairs, k)[2]) >= lo

\* A str field with min_length / max_length (no coercion from other types).
StrField(pairs, k, lo, hi) ==
    /\ HasKey(pairs, k)
    /\ IsStr(GetKey(pairs, k))
    /\ Len(GetKey(pairs, k)[2]) >= lo
    /\ Len(GetKey(pairs, k)[2]) <= hi

\* steps_not_empty: not s.strip()
IsBlank(cs) == \A n \in 1..Len(cs) : cs[n] \in Whitespace

StepsField(pairs) ==
    /\ HasKey(pairs, K_steps)
    /\ IsArr(GetKey(pairs, K_steps))
    /\ LET st == GetKey(pairs, K_steps)[2]
       IN  /\ Len(st) >= STEPS_MIN
           /\ Len(st) <= STEPS_MAX
           /\ \A n \in 1..Len(st) : IsStr(st[n]) /\ ~IsBlank(st[n][2])

\* TestCase validation of one element of test_cases.
TestCaseOk(v) ==
    /\ IsObj(v)
    /\ StrField(v[2], K_title, TITLE_MIN, TITLE_MAX)
    /\ StrField(v[2], K_preconditions, PRECONDITIONS_MIN, PRECONDITIONS_MAX)
    /\ StepsField(v[2])
    /\ StrField(v[2], K_expected_result, EXPECTED_RESULT_MIN, EXPECTED_RESULT_MAX)

\* The TestCase built from a validated element (extra keys are ignored).
TestCase(v) ==
    [title           |-> GetKey(v[2], K_title)[2],
     preconditions   |-> GetKey(v[2], K_preconditions)[2],
     steps           |-> [n \in 1..Len(GetKey(v[2], K_steps)[2]) |-> GetKey(v[2], K_steps)[2][n][2]],
     expected_result |-> GetKey(v[2], K_expected_result)[2]]

\* Variant: test_cases has no min_length.
LLMOutputOkAnySize(data) ==
    /\ IsObj(data)
    /\ HasKey(data[2], K_test_cases)
    /\ IsArr(GetKey(data[2], K_test_cases))
    /\ \A n \in 1..Len(GetKey(data[2], K_test_cases)[2]) :
            TestCaseOk(GetKey(data[2], K_test_cases)[2][n])

\* LLMOutput(**data) succeeds: data is a mapping (else TypeError) holding a
\* list test_cases of at least one valid TestCase (else ValidationError).
LLMOutputOk(data) ==
    /\ IsObj(data)
    /\ HasKey(data[2], K_test_cases)
    /\ IsArr(GetKey(data[2], K_test_cases))
    /\ LET tcs == GetKey(data[2], K_test_cases)[2]
       IN  /\ Len(tcs) >= TEST_CASES_MIN
           /\ \A n \in 1..Len(tcs) : TestCaseOk(tcs[n])

LLMOutput(data) ==
    LET tcs == GetKey(data[2], K_test_cases)[2]
    IN  [n \in 1..Len(tcs) |-> TestCase(tcs[n])]

(***************************************************************************)
(* Exceptions.  An LLMParseError is modelled by what its message holds:    *)
(* the fixed head (which makes every message non-empty), and the           *)
(* stop_reason and raw excerpt when the f-string interpolates them         *)
(* (<<>> when it does not).                                                *)
(***************************************************************************)
RAW_EXCERPT == 300

NoError == [kind |-> "none", head |-> "", stop_reason |-> <<>>, raw |-> <<>>]

\* raise LLMParseError(f"Structural validation failed: {e}")
StructuralError ==
    [kind |-> "LLMParseError", head |-> "Structural validation failed",
     stop_reason |-> <<>>, raw |-> <<>>]

\* raise LLMParseError(f"JSON could not be parsed or repaired.
\*   stop_reason={stop_reason!r}. Detail: {e}. First 300 chars of raw: {raw[:300]!r}")
DecodeError(raw, stop_reason) ==
    [kind |-> "LLMParseError", head |-> "JSON could not be parsed or repaired",
     stop_reason |-> <<stop_reason>>, raw |-> <<Take(raw, RAW_EXCERPT)>>]

\* What LLMOutput(**data) raises when it does not succeed: TypeError when
\* data is no mapping, ValidationError otherwise.
LLMOutputFault(data) == IF IsObj(data) THEN "ValidationError" ELSE "TypeError"

\* Variant: only ValidationError is caught.
CaughtValidationOnly(kind) == kind = "ValidationError"

\* except (ValidationError, TypeError) as e
CaughtStructural(kind) == kind \in {"ValidationError", "TypeError"}

\* _validate_structure(data): the LLMOutput, or LLMParseError; an exception
\* the except clause does not name leaves as it is.
validate_structure(data) ==
    IF LLMOutputOk(data)
    THEN [ok |-> TRUE, out |-> LLMOutput(data), err |-> NoError]
    ELSE IF CaughtStructural(LLMOutputFault(data))
    THEN [ok |-> FALSE, out |-> <<>>, err |-> StructuralError]
    ELSE [ok |-> FALSE, out |-> <<>>,
          err |-> [kind |-> LLMOutputFault(data), head |-> "",
                   stop_reason |-> <<>>, raw |-> <<>>]]

\* Strategy A is entered only when the stop reason is not "length".
DirectParseTried(stop_reason) == stop_reason # "length"

\* return _validate_structure(data), False   with v the validation result.
DirectResult(v) ==
    [ok |-> v.ok, out |-> v.out, was_repaired |-> FALSE, err |-> v.err,
     direct_tried |-> TRUE, repair_tried |-> FALSE]

\* return _validate_structure(data), True   with v the validation result.
RepairedResult(v, tryA) ==
    [ok |-> v.ok, out |-> v.out, was_repaired |-> v.ok, err |-> v.err,
     direct_tried |-> tryA, repair_tried |-> TRUE]

\* Strategy B with r the result of repair_truncated_json(cleaned).
StrategyB(raw, stop_reason, tryA, r) ==
    IF r.ok
    THEN RepairedResult(validate_structure(r.val), tryA)
    ELSE [ok |-> FALSE, out |-> <<>>, was_repaired |-> FALSE,
          err |-> DecodeError(raw, stop_reason),
          direct_tried |-> tryA, repair_tried |-> TRUE]

\* Strategy A, when tried, with a the result of json.loads(cleaned).
StrategyA(raw, stop_reason, cleaned, tryA, a) ==
    IF tryA /\ a.ok
    THEN DirectResult(validate_structure(a.val))
    ELSE StrategyB(raw, stop_reason, tryA, repair_truncated_json(cleaned))

\* The body of parse_and_validate after cleaned = strip_fences(raw).
Strategies(raw, stop_reason, cleaned) ==
    StrategyA(raw, stop_reason, cleaned, DirectParseTried(stop_reason), json_loads(cleaned))

\* parse_and_validate(raw, stop_reason): ok with (out, was_repaired), or the
\* exception that leaves the function in err.  direct_tried / repair_tried
\* record which strategies ran.
parse_and_validate(raw, stop_reason) == Strategies(raw, stop_reason, strip_fences(raw))

(***************************************************************************)
(* json.dumps with the default separators, as the tests use it to build    *)
(* raw texts from payloads.                                                *)
(***************************************************************************)
EscapeChar(c) ==
    CASE c = QUOTE  -> <<BSLASH, QUOTE>>
      [] c = BSLASH -> <<BSLASH, BSLASH>>
      [] c = "\n"   -> <<BSLASH, "n">>
      [] c = "\t"   -> <<BSLASH, "t">>
      [] c = "\r"   -> <<BSLASH, "r">>
      [] c = "\\b"  -> <<BSLASH, "b">>
      [] c = "\\f"  -> <<BSLASH, "f">>
      [] OTHER      -> <<c>>

DumpStr(cs) ==
    <<QUOTE>> \o Flatten([n \in 1..Len(cs) |-> EscapeChar(cs[n])], 1, Len(cs)) \o <<QUOTE>>

\* The text of a literal (None, True, False and the float constants).
LitText(w) ==
    CASE w = "null"      -> <<"n", "u", "l", "l">>
      [] w = "true"      -> <<"t", "r", "u", "e">>
      [] w = "false"     -> <<"f", "a", "l", "s", "e">>
      [] w = "NaN"       -> <<"N", "a", "N">>
      [] w = "Infinity"  -> <<"I", "n", "f", "i", "n", "i", "t", "y">>
      [] w = "-Infinity" -> <<"-", "I", "n", "f", "i", "n", "i", "t", "y">>

RECURSIVE json_dumps(_), DumpItems(_, _), DumpPairs(_, _)
json_dumps(v) ==
    CASE v[1] = "str" -> DumpStr(v[2])
      [] v[1] = "num" -> v[2]
      [] v[1] = "lit" -> LitText(v[2][1])
      [] v[1] = "arr" -> <<"[">> \o DumpItems(v[2], 1) \o <<"]">>
      [] v[1] = "obj" -> <<"{">> \o DumpPairs(v[2], 1) \o <<"}">>

DumpItems(vs, n) ==
    IF n > Len(vs) THEN <<>>
    ELSE json_dumps(vs[n]) \o (IF n < Len(vs) THEN <<",", " ">> ELSE <<>>) \o DumpItems(vs, n + 1)

DumpPairs(ps, n) ==
    IF n > Len(ps) THEN <<>>
    ELSE DumpStr(ps[n][1]) \o <<":", " ">> \o json_dumps(ps[n][2])
         \o (IF n < Len(ps) THEN <<",", " ">> ELSE <<>>) \o DumpPairs(ps, n + 1)

(***************************************************************************)
(* Input families for the validator functions.                             *)
(***************************************************************************)
\* Prose texts.
T_NOT_JSON == <<"t", "h", "i", "s", " ", "i", "s", " ", "n", "o", "t", " ", "j", "s", "o", "n", " ", "a", "t", " ", "a", "l", "l", " ", "!", "!", "!">>
T_FIVE_GREAT == <<"5", " ", QUOTE, "g", "r", "e", "a", "t", QUOTE, " ", "t", "e", "s", "t", "s">>

Str(cs) == <<"str", cs>>
Num(cs) == <<"num", cs>>
Arr(vs) == <<"arr", vs>>
Obj(ps) == <<"obj", ps>>

MkCase(t, p, st, e) ==
    Obj(<< <<K_title, Str(t)>>, <<K_preconditions, Str(p)>>,
           <<K_steps, Arr(st)>>, <<K_expected_result, Str(e)>> >>)

MkOutput(cases) == Obj(<< <<K_test_cases, Arr(cases)>> >>)

\* A case at the lower length bounds whose strings hold delimiters and an
\* escaped quote.
CaseA == MkCase(<<"L", "o", "g", "i", "n">>,
                <<"R", "e", "a", "d", "y">>,
                <<Str(<<"G", "o">>), Str(<<"D", "o", " ", "{", "i", "t", "}">>)>>,
                <<"S", "a", "y", " ", QUOTE, "h", "i", QUOTE, "[", "]">>)
\* Two ordinary cases.
CaseB == MkCase(<<"H", "a", "p", "p", "y", " ", "P", "a", "t", "h">>,
                <<"H", "a", "s", " ", "a", "c", "c", "o", "u", "n", "t">>,
                <<Str(<<"E", "n", "t", "e", "r", " ", "e", "m", "a", "i", "l">>), Str(<<"C", "l", "i", "c", "k">>), Str(<<"W", "a", "i", "t">>)>>,
                <<"D", "a", "s", "h", "b", "o", "a", "r", "d", " ", "s", "h", "o", "w", "n">>)
CaseC == MkCase(<<"W", "r", "o", "n", "g", " ", "P", "a", "s", "s", "w", "o", "r", "d">>,
                <<"E", "x", "i", "s", "t", "s">>,
                <<Str(<<"E", "n", "t", "e", "r", " ", "e", "m", "a", "i", "l">>), Str(<<"C", "l", "i", "c", "k">>)>>,
                <<"E", "r", "r", "o", "r", " ", "s", "h", "o", "w", "n">>)

\* Payloads the documents are dumped from: schema-conformant outputs first,
\* then other JSON values.
Payloads ==
    << MkOutput(<<CaseA>>),
       MkOutput(<<CaseB, CaseC>>),
       Obj(<< <<<<"w", "r", "o", "n", "g", "_", "k", "e", "y">>, Arr(<<>>)>> >>),
       Arr(<<Str(<<"a">>)>>),
       Arr(<<Str(<<>>)>>),
       Obj(<< <<(<<"a">>), Str(<<"b">>)>> >>),
       Obj(<< <<(<<"a">>), Num(<<"1">>)>>, <<(<<"b">>), Arr(<<Num(<<"1">>), Num(<<"2">>)>>)>> >>),
       Arr(<<Obj(<< <<(<<"a">>), Arr(<<Num(<<"1">>)>>)>> >>)>>),
       Arr(<<Arr(<<>>)>>),
       Arr(<<Obj(<<>>)>>),
       Str(FenceMark),
       Arr(<<Str(FenceMark \o JsonTag \o <<"x">>)>>),
       Num(<<"4", "2">>),
       Obj(<< <<(<<"k">>), Str(<<"x", ",", "}", "y">>)>>, <<(<<"a">>), Str(<<"b">>)>>,
              <<(<<"c">>), Num(<<"1">>)>> >>) >>

Doc(n) == json_dumps(Payloads[n])

\* Markdown wrappers an LLM puts around its JSON.
FenceStyles == {"none", "json_block", "bare_block", "open_only"}
Wrap(style, d) ==
    CASE style = "none"       -> d
      [] style = "json_block" -> FenceMark \o JsonTag \o <<NL>> \o d \o <<NL>> \o FenceMark
      [] style = "bare_block" -> FenceMark \o d \o FenceMark
      [] style = "open_only"  -> FenceMark \o JsonTag \o <<NL>> \o d

\* Indices of the valid JSON text d that lie outside its string literals:
\* not a quote, and after an even number of unescaped quotes.
OutsideString(d) ==
    {i \in 1..Len(d) :
        /\ d[i] # QUOTE
        /\ Cardinality({j \in 1..(i - 1) :
                d[j] = QUOTE /\ BackslashRun(d, 1, j) % 2 = 0}) % 2 = 0}

\* Places of d where a dangling comma can be put: right before a closer that
\* ends a non-empty object or array.
CommaSlots(d) ==
    {k \in OutsideString(d) :
        /\ k > 1
        /\ d[k] \in {"}", "]"}
        /\ d[k - 1] \notin {"{", "[", ","}}

InsertAt(d, k, c) == SubSeq(d, 1, k - 1) \o <<c>> \o SubSeq(d, k, Len(d))

\* Texts that are not JSON.
Prose == { T_NOT_JSON, T_FIVE_GREAT, Repeat("x", RAW_EXCERPT + 1) }

MaxLen == 4
Alphabet == {"{", "}", "[", "]", QUOTE, ",", ":", BSLASH, "a", "1", " "}
ShortTexts == UNION {[1..n -> Alphabet] : n \in 0..MaxLen}

StopReasons == {"stop", "length", "unknown"}

(***************************************************************************)
(* app/services/llm_client.py: LLMClient.generate over the outcomes of the *)
(* HTTP post.  Optional JSON fields are sequences of length 0 or 1.        *)
(***************************************************************************)
MAX_RETRIES == 2

OPENAI_MODEL == "gpt-4o-mini"

MkError(kind, head) == [kind |-> kind, head |-> head, stop_reason |-> <<>>, raw |-> <<>>]

NoResp == [text |-> <<>>, stop_reason |-> "", model |-> ""]

\* Contents the completion may carry.
Contents ==
    { Doc(1), Wrap("json_block", Doc(1)), Take(Doc(1), 60), Doc(3), T_NOT_JSON, <<>>,
      json_dumps(MkOutput(<<>>)) }

HttpOutcomes ==
    {[type |-> t, status |-> 0, content |-> <<>>, finish_reason |-> <<>>, model |-> <<>>] :
        t \in {"TimeoutException", "RequestError", "OtherException"}}
    \cup
    {[type |-> "response", status |-> c, content |-> <<>>, finish_reason |-> <<>>, model |-> <<>>] :
        c \in {429, 500}}
    \cup
    {[type |-> "response", status |-> 200, content |-> <<c>>, finish_reason |-> f, model |-> <<>>] :
        c \in Contents, f \in {<<"stop">>, <<"length">>, <<>>}}
    \cup
    {[type |-> "response", status |-> 200, content |-> <<c>>, finish_reason |-> <<"stop">>,
      model |-> <<"gpt-4o-mini-2024-07-18">>] : c \in {Doc(1), T_NOT_JSON}}
    \cup
    {[type |-> "response", status |-> 200, content |-> <<>>, finish_reason |-> <<"content_filter">>, model |-> <<>>]}

\* The exception generate raises on outcome h, NoError when it returns.
GenerateFault(h) ==
    CASE h.type = "TimeoutException" -> MkError("LLMTimeoutError", "LLM request timed out")
      [] h.type = "RequestError"     -> MkError("LLMNetworkError", "Network error")
      [] h.type = "OtherException"   -> MkError("Exception", "unexpected")
      [] h.type = "response" /\ h.status # 200 ->
            MkError("LLMAPIError", IF h.status = 429 THEN "OpenAI returned HTTP 429"
                                   ELSE "OpenAI returned HTTP 500")
      [] OTHER -> NoError

\* The LLMResponse generate returns on a 200 outcome.
LLMResponse(h) ==
    [text        |-> IF h.content = <<>> THEN <<>> ELSE h.content[1],
     stop_reason |-> IF h.finish_reason = <<>> THEN "unknown" ELSE h.finish_reason[1],
     model       |-> IF h.model = <<>> THEN OPENAI_MODEL ELSE h.model[1]]

(***************************************************************************)
(* app/services/scorer.py: score_test_cases.  A score is an integer number *)
(* of ten-thousandths (round(x, 4)); a sub-score before rounding is a      *)
(* fraction <<numerator, denominator>>; a weight is a number of hundredths.*)
(***************************************************************************)
WEIGHT_QUANTITY == 20
WEIGHT_STEPS == 25
WEIGHT_PRECONDITIONS == 20
WEIGHT_RESULTS == 20
WEIGHT_DIVERSITY == 15
TARGET_CASES == 3
TARGET_STEPS == 3
WORDS_PER_CASE == 3
PRECONDITIONS_LONG == 25
RESULT_LONG == 35
HIGH_PCT == 75
MEDIUM_PCT == 50
DECIMALS_4 == 10000

Uppercase == <<"A", "B", "C", "D", "E", "F", "G", "H", "I", "J", "K", "L", "M", "N", "O", "P", "Q",
    "R", "S", "T", "U", "V", "W", "X", "Y", "Z">>
Lowercase == <<"a", "b", "c", "d", "e", "f", "g", "h", "i", "j", "k", "l", "m", "n", "o", "p", "q",
    "r", "s", "t", "u", "v", "w", "x", "y", "z">>

\* The regex class \w on the modelled texts.
WordChars == {Uppercase[n] : n \in 1..26} \cup {Lowercase[n] : n \in 1..26} \cup Digits \cup {"_"}

\* The lowercase letter of each uppercase letter.
LowerOf ==
    [c \in {Uppercase[k] : k \in 1..26} |-> Lowercase[CHOOSE k \in 1..26 : Uppercase[k] = c]]

LowerChar(c) == IF c \in DOMAIN LowerOf THEN <<LowerOf[c]>> ELSE <<c>>

\* str.lower(), and what re.IGNORECASE compares.
LowerText(s) == Flatten([n \in 1..Len(s) |-> LowerChar(s[n])], 1, Len(s))

\* _VAGUE: the words of the alternation, correct(ly)? written out.
VAGUE ==
    { <<"w", "o", "r", "k", "s">>, <<"c", "o", "r", "r", "e", "c", "t">>, <<"c", "o", "r", "r",
        "e", "c", "t", "l", "y">>, <<"p", "r", "o", "p", "e", "r", "l", "y">>, <<"f", "i", "n",
        "e">>, <<"g", "o", "o", "d">>, <<"o", "k">>,
      <<"o", "k", "a", "y">>, <<"d", "o", "n", "e">>, <<"s", "u", "c", "c", "e", "s", "s">>, <<"f",
          "u", "n", "c", "i", "o", "n", "a">>, <<"c", "o", "r", "r", "e", "c", "t", "o">>, <<"b",
          "i", "e", "n">> }

\* _GENERIC_PRECOND: the texts the anchored pattern matches, n/?a and
\* ninguna? written out.
GENERIC_PRECOND ==
    { <<"t", "h", "e", " ", "u", "s", "e", "r", " ", "i", "s", " ", "l", "o", "g", "g", "e", "d",
        " ", "i", "n">>, <<"t", "h", "e", " ", "u", "s", "e", "r", " ", "i", "s", " ", "o", "n",
        " ", "t", "h", "e", " ", "a", "p", "p">>, <<"t", "h", "e", " ", "u", "s", "e", "r", " ",
        "i", "s", " ", "i", "n", " ", "t", "h", "e", " ", "s", "y", "s", "t", "e", "m">>,
      <<"n", "/", "a">>, <<"n", "a">>, <<"n", "o", "n", "e">>, <<"n", "i", "n", "g", "u", "n">>,
          <<"n", "i", "n", "g", "u", "n", "a">>, <<"n", "o", " ", "a", "p", "l", "i", "c", "a">> }

\* The alternative w matches the lowered text t from index i on, up to a
\* word boundary.
VagueAt(t, i, w) ==
    /\ i + Len(w) - 1 <= Len(t)
    /\ (i + Len(w) > Len(t) \/ t[i + Len(w)] \notin WordChars)
    /\ SubSeq(t, i, i + Len(w) - 1) = w

\* len(_VAGUE.findall(text)) for the lowered text t: the matches start at a
\* word boundary and do not overlap.
VagueCount(t) ==
    Cardinality({i \in 1..Len(t) :
        /\ (i = 1 \/ t[i - 1] \notin WordChars)
        /\ \E w \in VAGUE : VagueAt(t, i, w)})

\* prec_score in tenths, with p = tc.preconditions.strip().
PrecOfStripped(p) ==
    IF LowerText(p) \in GENERIC_PRECOND THEN 2
    ELSE IF Len(p) > PRECONDITIONS_LONG THEN 10 ELSE 6

prec_score(tc) == PrecOfStripped(PyStrip(tc.preconditions))

\* Variant: a long expected result scores 1.0 whatever words it holds.
ResOfCountLengthOnly(tc, vague_count) ==
    IF Len(tc.expected_result) > RESULT_LONG THEN 10
    ELSE IF vague_count <= 1 THEN 7
    ELSE 3

\* res_score in tenths, with vague_count the number of matches.
ResOfCount(tc, vague_count) ==
    IF vague_count = 0 /\ Len(tc.expected_result) > RESULT_LONG THEN 10
    ELSE IF vague_count <= 1 THEN 7
    ELSE 3

res_score(tc) == ResOfCount(tc, VagueCount(LowerText(tc.expected_result)))

\* The word of t that starts at index i: it ends at the first of the ends.
WordFrom(t, i, ends) ==
    SubSeq(t, i, CHOOSE j \in ends : j >= i /\ \A k \in ends : k >= i => j <= k)

\* t.split() on the lowered title t: the maximal runs without whitespace.
SplitWords(t) ==
    {WordFrom(t, i, {j \in 1..Len(t) :
                        t[j] \notin Whitespace /\ (j = Len(t) \/ t[j + 1] \in Whitespace)}) :
        i \in {j \in 1..Len(t) :
                  t[j] \notin Whitespace /\ (j = 1 \/ t[j - 1] \in Whitespace)}}

\* {w for tc in test_cases for w in tc.title.lower().split()}
TitleWords(test_cases) ==
    UNION {SplitWords(LowerText(test_cases[n].title)) : n \in 1..Len(test_cases)}

RECURSIVE SumSeq(_, _)
\* sum(xs[1..n])
SumSeq(xs, n) == IF n = 0 THEN 0 ELSE xs[n] + SumSeq(xs, n - 1)

\* Python's round of the fraction a / b to an integer: ties go to even.  (In
\* round(total * 100) the float product is off the tie for the totals
\* 0.545 and 0.575; both are far from the thresholds of the label.)
PyRound(a, b) ==
    IF 2 * (a % b) < b THEN a \div b
    ELSE IF 2 * (a % b) > b THEN (a \div b) + 1
    ELSE IF (a \div b) % 2 = 0 THEN a \div b ELSE (a \div b) + 1

\* round(x, 4) of the fraction x, in ten-thousandths.
Round4(x) == PyRound(DECIMALS_4 * x[1], x[2])

\* The fraction x, whose denominator divides d, as a number of d-ths.
Over(x, d) == x[1] * (d \div x[2])

\* The sub-scores before weighting: min(n / 3, 1.0), avg_steps, and the
\* means of prec_score and res_score, min(len(words) / (n * 3), 1.0).
Quantity(n) == <<Min2(n, TARGET_CASES), TARGET_CASES>>

AvgSteps(test_cases, n) ==
    <<SumSeq([k \in 1..n |-> Min2(Len(test_cases[k].steps), TARGET_STEPS)], n), TARGET_STEPS * n>>

PrecMean(test_cases, n) == <<SumSeq([k \in 1..n |-> prec_score(test_cases[k])], n), 10 * n>>

ResMean(test_cases, n) == <<SumSeq([k \in 1..n |-> res_score(test_cases[k])], n), 10 * n>>

\* Variant: the diversity is not capped at 1.0.
DiversityUncapped(words, n) == <<Cardinality(words), n * WORDS_PER_CASE>>

Diversity(words, n) == <<Min2(Cardinality(words), n * WORDS_PER_CASE), n * WORDS_PER_CASE>>

\* Variant: the preconditions sub-score is left out of the sum.
WeightedSumNoPreconditions(q, s, p, r, d, n) ==
    << WEIGHT_QUANTITY * Over(q, 30 * n) + WEIGHT_STEPS * Over(s, 30 * n)
       + WEIGHT_RESULTS * Over(r, 30 * n) + WEIGHT_DIVERSITY * Over(d, 30 * n),
       100 * 30 * n >>

\* qty + steps + prec + res + div as one fraction (30 * n is a common
\* multiple of the denominators of the sub-scores).
WeightedSum(q, s, p, r, d, n) ==
    << WEIGHT_QUANTITY * Over(q, 30 * n) + WEIGHT_STEPS * Over(s, 30 * n)
       + WEIGHT_PRECONDITIONS * Over(p, 30 * n) + WEIGHT_RESULTS * Over(r, 30 * n)
       + WEIGHT_DIVERSITY * Over(d, 30 * n),
       100 * 30 * n >>

\* Variant: the High threshold is compared strictly.
LabelStrict(pct) ==
    IF pct > HIGH_PCT THEN "Alta calidad"
    ELSE IF pct >= MEDIUM_PCT THEN "Calidad media"
    ELSE "Mejorable"

\* The label for pct = round(total * 100).
Label(pct) ==
    IF pct >= HIGH_PCT THEN "Alta calidad"
    ELSE IF pct >= MEDIUM_PCT THEN "Calidad media"
    ELSE "Mejorable"

\* QualityReport(score=total, label=label, dimensions=dimensions)
QualityReport(total, q, s, p, r, d) ==
    [ok |-> TRUE, fault |-> "none", score |-> total, label |-> Label(PyRound(total, 100)),
     dimensions |-> [quantity |-> Round4(q), steps_depth |-> Round4(s),
                     preconditions |-> Round4(p), expected_results |-> Round4(r),
                     diversity |-> Round4(d)]]

\* No report: the call raised fault.
NoQuality(fault) ==
    [ok |-> FALSE, fault |-> fault, score |-> 0, label |-> "",
     dimensions |-> [quantity |-> 0, steps_depth |-> 0, preconditions |-> 0,
                     expected_results |-> 0, diversity |-> 0]]

\* The body of score_test_cases once the sub-scores are known.
Aggregate(q, s, p, r, d, n) == QualityReport(Round4(WeightedSum(q, s, p, r, d, n)), q, s, p, r, d)

\* score_test_cases(test_cases); the division by n raises ZeroDivisionError
\* on the empty list.
score_test_cases(test_cases) ==
    IF Len(test_cases) = 0 THEN NoQuality("ZeroDivisionError")
    ELSE Aggregate(Quantity(Len(test_cases)),
                   AvgSteps(test_cases, Len(test_cases)),
                   PrecMean(test_cases, Len(test_cases)),
                   ResMean(test_cases, Len(test_cases)),
                   Diversity(TitleWords(test_cases), Len(test_cases)),
                   Len(test_cases))

(***************************************************************************)
(* State.                                                                  *)
(***************************************************************************)
VARIABLES
    \* generate_test_cases
    pc,          \* "generate": awaiting client.generate; "process": response
                 \* in hand; "returned" / "raised": the call has ended
    attempt,     \* the loop variable
    attempts,    \* the local attempts
    last_error,  \* the local last_error (NoError for None)
    llm_resp,    \* the LLMResponse of the current attempt
    response,    \* the GenerateResponse returned
    raised,      \* the exception that left generate_test_cases
    calls,       \* number of client.generate calls made
    parses,      \* number of parse_and_validate calls made
    scores,      \* number of score_test_cases calls made
    thrown,      \* per attempt, the exception raised in its try block
    \* the request around generate_test_cases
    route,       \* how generate_tests ended: its return value or exception
    http,        \* the HTTP response given to the caller
    client,      \* the LLMClient of the request: "open" or "closed"
    closes,      \* number of client.aclose() calls made
    \* the validator functions applied to one input
    raw, origin, family, op, stop_reason, stripped, repaired, parsed,
    reparsed,    \* parse_and_validate called once more with another stop_reason
    \* score_test_cases applied to TestCases built from keyword arguments
    tcs,         \* the arguments of each TestCase(...) call, as objects
    reports      \* what each call made so far gave

orch_vars == <<pc, attempt, attempts, last_error, llm_resp, response, raised,
               calls, parses, scores, thrown>>
api_vars  == <<route, http, client, closes>>
val_vars  == <<raw, origin, family, op, stop_reason, stripped, repaired, parsed,
               reparsed, tcs, reports>>
vars      == <<pc, attempt, attempts, last_error, llm_resp, response, raised,
               calls, parses, scores, thrown,
               route, http, client, closes,
               raw, origin, family, op, stop_reason, stripped, repaired, parsed,
               reparsed, tcs, reports>>

NoResponse ==
    [test_cases |-> <<>>, quality |-> NoQuality("none"),
     meta |-> [model |-> "", stop_reason |-> "", was_repaired |-> FALSE, attempts |-> 0]]

NoRepair == [ok |-> FALSE, val |-> <<>>, direct |-> FALSE, text |-> <<>>]
NoParse  == [ok |-> FALSE, out |-> <<>>, was_repaired |-> FALSE, err |-> NoError,
             direct_tried |-> FALSE, repair_tried |-> FALSE]
NoReparse == [stop_reason |-> "", result |-> NoParse]

\* generate_tests has not ended; no answer was given yet.
NoRoute == [kind |-> "none", status |-> 0, detail |-> "", error |-> NoError, body |-> NoResponse]

NoHttp == [status |-> 0, detail |-> "", error |-> NoError, body |-> NoResponse]

OrchInit ==
    /\ pc = "generate"
    /\ attempt = 1
    /\ attempts = 0
    /\ last_error = NoError
    /\ llm_resp = NoResp
    /\ response = NoResponse
    /\ raised = NoError
    /\ calls = 0
    /\ parses = 0
    /\ scores = 0
    /\ thrown = <<>>
    /\ route = NoRoute
    /\ http = NoHttp
    /\ client = "open"
    /\ closes = 0

ValIdle ==
    /\ raw = <<>>
    /\ origin = <<>>
    /\ family = "none"
    /\ op = "input"
    /\ stop_reason = ""
    /\ stripped = <<>>
    /\ repaired = NoRepair
    /\ parsed = NoParse
    /\ reparsed = NoReparse
    /\ tcs = <<>>
    /\ reports = <<>>

(***************************************************************************)
(* app/services/generator.py: generate_test_cases.                         *)
(***************************************************************************)
\* Variant: the infrastructure faults are retried like parse errors.
HandlerRetryInfra(kind) ==
    CASE kind \in {"LLMParseError", "LLMTimeoutError", "LLMNetworkError"} -> "retry"
      [] OTHER -> "propagate"

\* Variant: the retry clause catches the base class LLMError after the
\* infrastructure faults are set apart.
HandlerRetryApi(kind) ==
    CASE kind \in {"LLMParseError", "LLMAPIError"} -> "retry"
      [] kind \in {"LLMTimeoutError", "LLMNetworkError"} -> "reraise"
      [] OTHER -> "propagate"

\* Which except clause of the try block takes an exception of this kind.
Handler(kind) ==
    CASE kind = "LLMParseError" -> "retry"
      [] kind \in {"LLMTimeoutError", "LLMNetworkError"} -> "reraise"
      [] OTHER -> "propagate"

\* Variant: the range stops one attempt early.
InRangeShort(n) == n >= 1 /\ n < MAX_RETRIES + 1

\* for attempt in range(1, settings.MAX_RETRIES + 2)
InRange(n) == n >= 1 /\ n < MAX_RETRIES + 2

\* Variant: strict comparison, one retry fewer.
RetryAllowedStrict(n) == n < MAX_RETRIES

\* if attempt <= settings.MAX_RETRIES: continue
RetryAllowed(n) == n <= MAX_RETRIES

\* Variant: only the first error is remembered.
StoreFirstError(prev, e) == IF prev = NoError THEN e ELSE prev

\* last_error = e
StoreError(prev, e) == e

\* raise last_error or LLMParseError("Generation failed after all retries")
AfterLoop(err) ==
    IF err # NoError THEN err
    ELSE MkError("LLMParseError", "Generation failed after all retries")

\* Variant: meta.attempts counts the retries, not the calls.
GenerateResponseCountsRetries(test_cases, quality, resp, was_repaired, n) ==
    [test_cases |-> test_cases, quality |-> quality,
     meta |-> [model |-> resp.model, stop_reason |-> resp.stop_reason,
               was_repaired |-> was_repaired, attempts |-> n - 1]]

\* return GenerateResponse(test_cases=..., quality=quality, meta=ResponseMeta(...))
GenerateResponse(test_cases, quality, resp, was_repaired, n) ==
    [test_cases |-> test_cases, quality |-> quality,
     meta |-> [model |-> resp.model, stop_reason |-> resp.stop_reason,
               was_repaired |-> was_repaired, attempts |-> n]]

\* An exception e leaves the try block of the current attempt.
Except(e) ==
    /\ thrown' = Append(thrown, e)
    /\ IF Handler(e.kind) = "retry"
       THEN /\ last_error' = StoreError(last_error, e)
            /\ IF RetryAllowed(attempt) /\ InRange(attempt + 1)
               THEN /\ attempt' = attempt + 1
                    /\ pc' = "generate"
                    /\ raised' = raised
               ELSE /\ attempt' = attempt
                    /\ pc' = "raised"
                    /\ raised' = AfterLoop(last_error')
       ELSE /\ last_error' = last_error
            /\ attempt' = attempt
            /\ pc' = "raised"
            /\ raised' = e

\* await client.generate(user_story) returns an LLMResponse.
GenerateReturns ==
    /\ pc = "generate"
    /\ InRange(attempt)
    /\ \E h \in HttpOutcomes :
        /\ GenerateFault(h) = NoError
        /\ llm_resp' = LLMResponse(h)
    /\ attempts' = attempt
    /\ calls' = calls + 1
    /\ pc' = "process"
    /\ UNCHANGED <<attempt, last_error, response, raised, parses, scores, thrown>>
    /\ UNCHANGED api_vars
    /\ UNCHANGED val_vars

\* await client.generate(user_story) raises.
GenerateRaises ==
    /\ pc = "generate"
    /\ InRange(attempt)
    /\ \E h \in HttpOutcomes :
        /\ GenerateFault(h) # NoError
        /\ Except(GenerateFault(h))
    /\ attempts' = attempt
    /\ calls' = calls + 1
    /\ UNCHANGED <<llm_resp, response, parses, scores>>
    /\ UNCHANGED api_vars
    /\ UNCHANGED val_vars

\* quality = score_test_cases(llm_output.test_cases) returned: the response
\* is built from it.
Respond(r, quality) ==
    /\ quality.ok
    /\ response' = GenerateResponse(r.out, quality, llm_resp, r.was_repaired, attempts)

\* parse_and_validate returned r: scoring, then the response is returned.
Return(r) ==
    /\ r.ok
    /\ Respond(r, score_test_cases(r.out))

\* score_test_cases was called and raised.
ScoreRaises(quality) ==
    /\ ~quality.ok
    /\ Except(MkError(quality.fault, "division by zero"))
    /\ scores' = scores + 1

\* parse_and_validate raised r.err, or score_test_cases raised after it
\* returned.
Raise(r) ==
    IF r.ok THEN ScoreRaises(score_test_cases(r.out))
    ELSE Except(r.err) /\ scores' = scores

\* parse_and_validate and score_test_cases succeed: the response is returned.
ProcessReturns ==
    /\ pc = "process"
    /\ Return(parse_and_validate(llm_resp.text, llm_resp.stop_reason))
    /\ parses' = parses + 1
    /\ scores' = scores + 1
    /\ thrown' = Append(thrown, NoError)
    /\ pc' = "returned"
    /\ UNCHANGED <<attempt, attempts, last_error, llm_resp, raised, calls>>
    /\ UNCHANGED api_vars
    /\ UNCHANGED val_vars

\* parse_and_validate or score_test_cases raises.
ProcessRaises ==
    /\ pc = "process"
    /\ Raise(parse_and_validate(llm_resp.text, llm_resp.stop_reason))
    /\ parses' = parses + 1
    /\ UNCHANGED <<attempts, llm_resp, response, calls>>
    /\ UNCHANGED api_vars
    /\ UNCHANGED val_vars

(***************************************************************************)
(* The request around generate_test_cases: app/api/routes.py               *)
(* (generate_tests), app/main.py (global_exception_handler) and            *)
(* app/api/dependencies.py (get_llm_client).  An HTTP answer holds the     *)
(* status, the fixed head of its detail, the exception whose message the   *)
(* detail interpolates (NoError when none) and the body of a success.      *)
(***************************************************************************)
\* raise HTTPException(status_code=status, detail=f"{detail}: {e}")
HTTPException(status, detail, e) ==
    [kind |-> "HTTPException", status |-> status, detail |-> detail, error |-> e,
     body |-> NoResponse]

\* An exception no except clause of generate_tests names leaves it.
Propagates(e) ==
    [kind |-> "unhandled", status |-> 0, detail |-> "", error |-> e, body |-> NoResponse]

\* Variant: one clause catches the base class LLMError as a bad gateway.
RouteExceptAnyLLMError(e) ==
    CASE e.kind = "LLMTimeoutError" -> HTTPException(504, "LLM request timed out", e)
      [] e.kind \in {"LLMNetworkError", "LLMParseError", "LLMAPIError"} ->
            HTTPException(502, "LLM error", e)
      [] OTHER -> Propagates(e)

\* The except clauses of generate_tests on exception e.
RouteExcept(e) ==
    CASE e.kind = "LLMTimeoutError" -> HTTPException(504, "LLM request timed out", e)
      [] e.kind = "LLMNetworkError" -> HTTPException(502, "LLM network error", e)
      [] e.kind = "LLMParseError"   -> HTTPException(502, "LLM returned unparseable output", e)
      [] OTHER -> Propagates(e)

\* return await generate_test_cases(user_story=body.user_story, client=client)
RouteReturn(resp) ==
    [kind |-> "return", status |-> 0, detail |-> "", error |-> NoError, body |-> resp]

\* return JSONResponse(status_code=500, content={"detail": "Internal server error"})
global_exception_handler(exc) ==
    [status |-> 500, detail |-> "Internal server error", error |-> NoError,
     body |-> NoResponse]

\* The answer to the caller for the way r generate_tests ended: the
\* response_model on return, the HTTPException as raised, the handler
\* registered for Exception otherwise.
Answer(r) ==
    CASE r.kind = "return" ->
            [status |-> 200, detail |-> "", error |-> NoError, body |-> r.body]
      [] r.kind = "HTTPException" ->
            [status |-> r.status, detail |-> r.detail, error |-> r.error, body |-> NoResponse]
      [] OTHER -> global_exception_handler(r.error)

\* Variant: the cleanup follows the yield without try / finally.
CleanupAfterYieldOnly(r) == r.kind = "return"

\* try: yield client / finally: await client.aclose(): the cleanup runs
\* whether the request resumes the generator or throws into it.
CleanupRuns(r) == r.kind \in {"return", "HTTPException", "unhandled"}

\* generate_tests: generate_test_cases returned.
RouteReturns ==
    /\ pc = "returned"
    /\ route = NoRoute
    /\ route' = RouteReturn(response)
    /\ UNCHANGED <<http, client, closes>>
    /\ UNCHANGED orch_vars
    /\ UNCHANGED val_vars

\* generate_tests: generate_test_cases raised.
RouteRaises ==
    /\ pc = "raised"
    /\ route = NoRoute
    /\ route' = RouteExcept(raised)
    /\ UNCHANGED <<http, client, closes>>
    /\ UNCHANGED orch_vars
    /\ UNCHANGED val_vars

\* get_llm_client after its yield: await client.aclose().
DependencyExit ==
    /\ route # NoRoute
    /\ CleanupRuns(route)
    /\ client = "open"
    /\ client' = "closed"
    /\ closes' = closes + 1
    /\ UNCHANGED <<route, http>>
    /\ UNCHANGED orch_vars
    /\ UNCHANGED val_vars

\* The answer is given to the caller, before or after the dependency's exit
\* code (the order depends on the framework version).
SendResponse ==
    /\ route # NoRoute
    /\ http = NoHttp
    /\ http' = Answer(route)
    /\ UNCHANGED <<route, client, closes>>
    /\ UNCHANGED orch_vars
    /\ UNCHANGED val_vars

Init == OrchInit /\ ValIdle

Next ==
    \/ GenerateReturns \/ GenerateRaises \/ ProcessReturns \/ ProcessRaises
    \/ RouteReturns \/ RouteRaises \/ DependencyExit \/ SendResponse

Spec == Init /\ [][Next]_vars

\* The try block after client.generate returned runs to its end: every step
\* taken while pc = "process" is ProcessReturns or ProcessRaises, and one of
\* the two is enabled there, so this names their steps by what they do to pc.
ProcessEnds == pc = "process" /\ pc' \in {"returned", "raised", "generate"}

\* Every step of a request is code that runs to its end: the HTTP post has
\* a timeout, parsing and scoring are computations, the handlers and the
\* cleanup wait for nothing.
FairSpec ==
    /\ Init
    /\ [][Next]_vars
    /\ WF_vars(GenerateReturns \/ GenerateRaises)
    /\ WF_pc(ProcessEnds)
    /\ WF_vars(RouteReturns \/ RouteRaises)
    /\ WF_vars(DependencyExit)
    /\ WF_vars(SendResponse)

(***************************************************************************)
(* The validator functions applied to one input text.                      *)
(***************************************************************************)
ValInit ==
    /\ op = "input"
    /\ stop_reason = ""
    /\ stripped = <<>>
    /\ repaired = NoRepair
    /\ parsed = NoParse
    /\ reparsed = NoReparse
    /\ tcs = <<>>
    /\ reports = <<>>
    /\ \/ /\ family = "short"
          /\ raw \in ShortTexts
          /\ origin = <<>>
       \/ /\ family = "prose"
          /\ raw \in Prose
          /\ origin = <<>>
       \/ /\ family = "document"
          /\ \E n \in 1..Len(Payloads), w \in FenceStyles :
                /\ origin = Doc(n)
                /\ raw = Wrap(w, Doc(n))
       \/ /\ family = "truncated"
          /\ \E n \in 1..Len(Payloads), w \in {"none", "open_only"} :
                /\ origin = Doc(n)
                /\ \E k \in 1..(Len(Doc(n)) - 1) : raw = Wrap(w, Take(Doc(n), k))
       \/ /\ family = "dangling_comma"
          /\ \E n \in 1..Len(Payloads) :
                /\ origin = Doc(n)
                /\ \E k \in CommaSlots(Doc(n)) : raw = InsertAt(Doc(n), k, ",")

CallStripFences ==
    /\ op = "input"
    /\ op' = "strip_fences"
    /\ stripped' = strip_fences(raw)
    /\ UNCHANGED <<raw, origin, family, stop_reason, repaired, parsed, reparsed, tcs, reports>>
    /\ UNCHANGED orch_vars
    /\ UNCHANGED api_vars

CallRepair ==
    /\ op = "input"
    /\ op' = "repair_truncated_json"
    /\ repaired' = repair_truncated_json(raw)
    /\ UNCHANGED <<raw, origin, family, stop_reason, stripped, parsed, reparsed, tcs, reports>>
    /\ UNCHANGED orch_vars
    /\ UNCHANGED api_vars

CallParseAndValidate ==
    /\ op = "input"
    /\ op' = "parse_and_validate"
    /\ \E sr \in StopReasons :
        /\ stop_reason' = sr
        /\ parsed' = parse_and_validate(raw, sr)
    /\ UNCHANGED <<raw, origin, family, stripped, repaired, reparsed, tcs, reports>>
    /\ UNCHANGED orch_vars
    /\ UNCHANGED api_vars

ValidatorInit == OrchInit /\ ValInit

ValidatorNext == CallStripFences \/ CallRepair \/ CallParseAndValidate

SpecValidator == ValidatorInit /\ [][ValidatorNext]_vars

(***************************************************************************)
(* parse_and_validate called on the same text with two stop reasons        *)
(* (specification SpecReparse), on the input families above with the       *)
(* short texts of up to MaxReparse characters.                             *)
(***************************************************************************)
MaxReparse == 3

ReparseInit == ValInit /\ (family = "short" => Len(raw) <= MaxReparse)

\* parse_and_validate(raw, sr) once more, with a stop reason other than the
\* one of the first call.
CallParseAgain ==
    /\ op = "parse_and_validate"
    /\ op' = "parse_again"
    /\ \E sr \in StopReasons \ {stop_reason} :
          reparsed' = [stop_reason |-> sr, result |-> parse_and_validate(raw, sr)]
    /\ UNCHANGED <<raw, origin, family, stop_reason, stripped, repaired, parsed, tcs, reports>>
    /\ UNCHANGED orch_vars
    /\ UNCHANGED api_vars

SpecReparseInit == OrchInit /\ ReparseInit

ReparseNext == CallParseAndValidate \/ CallParseAgain

SpecReparse == SpecReparseInit /\ [][ReparseNext]_vars

(***************************************************************************)
(* parse_and_validate on object graphs around the bounds of the schema     *)
(* (specification SpecSchema): CaseA with one field replaced or removed,   *)
(* alone or beside a valid case, and top-level values of other shapes.     *)
(***************************************************************************)
\* The object v with key k set to value x / without key k.
WithField(v, k, x) == Obj(DictPut(v[2], k, x))

WithoutField(v, k) ==
    Obj(SubSeq(v[2], 1, (CHOOSE n \in 1..Len(v[2]) : v[2][n][1] = k) - 1)
        \o SubSeq(v[2], (CHOOSE n \in 1..Len(v[2]) : v[2][n][1] = k) + 1, Len(v[2])))

\* A string value of n characters.
StrOfLen(n) == Str(Repeat("x", n))

\* Values a field takes: at and right outside each bound, and of other types.
FieldValues(k) ==
    CASE k = K_title ->
            {StrOfLen(TITLE_MIN - 1), StrOfLen(TITLE_MIN), StrOfLen(TITLE_MAX),
             StrOfLen(TITLE_MAX + 1), Num(<<"7">>)}
      [] k = K_preconditions ->
            {StrOfLen(PRECONDITIONS_MIN - 1), StrOfLen(PRECONDITIONS_MIN),
             StrOfLen(PRECONDITIONS_MAX), StrOfLen(PRECONDITIONS_MAX + 1), Arr(<<>>)}
      [] k = K_expected_result ->
            {StrOfLen(EXPECTED_RESULT_MIN - 1), StrOfLen(EXPECTED_RESULT_MIN),
             StrOfLen(EXPECTED_RESULT_MAX), StrOfLen(EXPECTED_RESULT_MAX + 1),
             <<"lit", <<"null">>>>}
      [] k = K_steps ->
            {Arr([n \in 1..m |-> StrOfLen(1)]) : m \in (STEPS_MIN - 1)..(STEPS_MAX + 1)}
            \cup {Arr(<<StrOfLen(1), Str(<<" ", "\t">>)>>), Arr(<<Str(<<>>), StrOfLen(1)>>),
                  Arr(<<StrOfLen(1), Num(<<"2">>)>>), StrOfLen(2)}

FieldKeys == {K_title, K_preconditions, K_steps, K_expected_result}

CaseVariants ==
    {WithField(CaseA, k, x) : <<k, x>> \in UNION {{k} \X FieldValues(k) : k \in FieldKeys}}
    \cup {WithoutField(CaseA, k) : k \in FieldKeys}
    \cup {WithField(CaseA, <<"i", "d">>, Num(<<"1">>)), Str(<<"c", "a", "s", "e">>)}

SchemaPayloads ==
    {MkOutput(<<c>>) : c \in CaseVariants}
    \cup {MkOutput(<<CaseB, c>>) : c \in CaseVariants}
    \cup {MkOutput(<<c, CaseC>>) : c \in CaseVariants}
    \cup {MkOutput(<<>>), WithField(MkOutput(<<CaseA>>), K_test_cases, Obj(<<>>)),
          WithField(MkOutput(<<CaseA>>), <<"n">>, Num(<<"1">>)),
          Arr(<<CaseA>>), Str(K_test_cases), <<"lit", <<"null">>>>}
    \cup {Payloads[n] : n \in 1..Len(Payloads)}

SchemaInit ==
    /\ op = "input"
    /\ stop_reason = ""
    /\ stripped = <<>>
    /\ repaired = NoRepair
    /\ parsed = NoParse
    /\ reparsed = NoReparse
    /\ tcs = <<>>
    /\ reports = <<>>
    /\ family = "schema"
    /\ \E v \in SchemaPayloads, w \in FenceStyles :
          /\ origin = json_dumps(v)
          /\ raw = Wrap(w, json_dumps(v))

SpecSchemaInit == OrchInit /\ SchemaInit

SpecSchema == SpecSchemaInit /\ [][ValidatorNext]_vars

(***************************************************************************)
(* strip_fences applied to its own result (specification SpecFences), on   *)
(* texts put together from backquotes, fence marks, the json tag, parts of *)
(* it, whitespace and a JSON character.                                    *)
(***************************************************************************)
MaxParts == 5

Parts == {<<BTICK>>, FenceMark, JsonTag, <<"j">>, <<" ">>, <<NL>>, <<"{">>}

RECURSIVE Joined(_)
\* The texts of up to n parts.
Joined(n) ==
    IF n = 0 THEN {<<>>}
    ELSE Joined(n - 1) \cup {t \o p : t \in Joined(n - 1), p \in Parts}

FencesInit ==
    /\ op = "input"
    /\ stop_reason = ""
    /\ stripped = <<>>
    /\ repaired = NoRepair
    /\ parsed = NoParse
    /\ reparsed = NoReparse
    /\ tcs = <<>>
    /\ reports = <<>>
    /\ family = "parts"
    /\ origin = <<>>
    /\ raw \in Joined(MaxParts)

\* The result of strip_fences is given to strip_fences again.
StripAgain ==
    /\ op = "strip_fences"
    /\ family = "parts"
    /\ family' = "stripped"
    /\ origin' = raw
    /\ raw' = stripped
    /\ op' = "input"
    /\ UNCHANGED <<stop_reason, stripped, repaired, parsed, reparsed, tcs, reports>>
    /\ UNCHANGED orch_vars
    /\ UNCHANGED api_vars

SpecFencesInit == OrchInit /\ FencesInit

FencesNext == CallStripFences \/ StripAgain

SpecFences == SpecFencesInit /\ [][FencesNext]_vars

(***************************************************************************)
(* score_test_cases on lists of TestCases built from keyword arguments     *)
(* (specification SpecScorer), as make_tc of tests/test_validator.py       *)
(* builds them.  The list is read through sums and a set only, so lists    *)
(* are taken up to the order of their cases.                               *)
(***************************************************************************)
MaxCases == 4

\* The default arguments of make_tc, and its default steps with a fourth.
T_TITLE == <<"T", "e", "s", "t", " ", "C", "a", "s", "e", " ", "T", "i", "t", "l", "e">>
T_PRECONDITIONS == <<"U", "s", "e", "r", " ", "i", "s", " ", "o", "n", " ", "t", "h", "e", " ",
    "r", "e", "g", "i", "s", "t", "r", "a", "t", "i", "o", "n", " ", "p", "a", "g", "e", " ", "w",
    "i", "t", "h", " ", "v", "a", "l", "i", "d", " ", "d", "a", "t", "a">>
T_RESULT == <<"S", "y", "s", "t", "e", "m", " ", "d", "i", "s", "p", "l", "a", "y", "s", " ", "c",
    "o", "n", "f", "i", "r", "m", "a", "t", "i", "o", "n", " ", "a", "n", "d", " ", "s", "e", "n",
    "d", "s", " ", "v", "e", "r", "i", "f", "i", "c", "a", "t", "i", "o", "n", " ", "e", "m", "a",
    "i", "l", " ", "t", "o", " ", "u", "s", "e", "r">>
T_STEPS == << <<"S", "t", "e", "p", " ", "o", "n", "e", " ", "a", "c", "t", "i", "o", "n">>, <<"S",
    "t", "e", "p", " ", "t", "w", "o", " ", "a", "c", "t", "i", "o", "n">>, <<"S", "t", "e", "p",
    " ", "t", "h", "r", "e", "e", " ", "a", "c", "t", "i", "o", "n">>, <<"S", "t", "e", "p", " ",
    "f", "o", "u", "r", " ", "a", "c", "t", "i", "o", "n">> >>

\* Preconditions of 26 characters of which 11 are left by strip(), of 26 and
\* of 25 characters; expected results of 36 and 35 characters that hold the
\* letters ok inside a word, and one that holds a single vague word.
T_PADDED == <<"H", "a", "s", " ", "a", "c", "c", "o", "u", "n", "t", " ", " ", " ", " ", " ", " ",
    " ", " ", " ", " ", " ", " ", " ", " ", " ">>
T_PRECOND_26 == <<"A", "c", "c", "o", "u", "n", "t", " ", "e", "x", "i", "s", "t", "s", ",", " ",
    "i", "s", " ", "a", "c", "t", "i", "v", "e", ".">>
T_PRECOND_25 == <<"A", "c", "c", "o", "u", "n", "t", " ", "e", "x", "i", "s", "t", "s", ",", " ",
    "i", "s", " ", "a", "c", "t", "i", "v", "e">>
T_RESULT_36 == <<"T", "h", "e", " ", "b", "o", "o", "k", "m", "a", "r", "k", " ", "i", "s", " ",
    "s", "t", "o", "r", "e", "d", " ", "f", "o", "r", " ", "t", "h", "i", "s", " ", "u", "s", "e",
    "r">>
T_RESULT_35 == <<"T", "h", "e", " ", "b", "o", "o", "k", "m", "a", "r", "k", " ", "i", "s", " ",
    "s", "t", "o", "r", "e", "d", " ", "f", "o", "r", " ", "t", "h", "e", " ", "u", "s", "e", "r">>
T_RESULT_DONE == <<"L", "o", "g", "i", "n", " ", "i", "s", " ", "d", "o", "n", "e", " ", "a", "n",
    "d", " ", "t", "h", "e", " ", "d", "a", "s", "h", "b", "o", "a", "r", "d", " ", "i", "s", " ",
    "d", "i", "s", "p", "l", "a", "y", "e", "d", " ", "t", "o", " ", "u", "s", "e", "r">>

\* make_tc(title=..., preconditions=..., steps=<the first n steps>, expected_result=...)
make_tc(title, preconditions, n, expected_result) ==
    MkCase(title, preconditions, [k \in 1..n |-> Str(T_STEPS[k])], expected_result)

ScorerPool ==
    << make_tc(<<"H", "a", "p", "p", "y", " ", "P", "a", "t", "h", " ", "R", "e", "g", "i", "s",
        "t", "r", "a", "t", "i", "o", "n">>, T_PRECONDITIONS, 3, T_RESULT),
       make_tc(<<"E", "m", "a", "i", "l", " ", "A", "l", "r", "e", "a", "d", "y", " ", "R", "e",
           "g", "i", "s", "t", "e", "r", "e", "d", " ", "E", "r", "r", "o", "r">>, T_PRECONDITIONS,
           3, T_RESULT),
       make_tc(<<"E", "d", "g", "e", " ", "C", "a", "s", "e", " ", "E", "m", "p", "t", "y", " ",
           "F", "o", "r", "m", " ", "S", "u", "b", "m", "i", "s", "s", "i", "o", "n">>,
           T_PRECONDITIONS, 3, T_RESULT),
       make_tc(<<"S", "e", "c", "u", "r", "i", "t", "y", " ", "S", "Q", "L", " ", "I", "n", "j",
           "e", "c", "t", "i", "o", "n", " ", "A", "t", "t", "e", "m", "p", "t">>, T_PRECONDITIONS,
           3, T_RESULT),
       make_tc(T_TITLE, T_PRECONDITIONS, 3, <<"I", "t", " ", "w", "o", "r", "k", "s", " ", "c",
           "o", "r", "r", "e", "c", "t", "l", "y", " ", "a", "n", "d", " ", "e", "v", "e", "r",
           "y", "t", "h", "i", "n", "g", " ", "i", "s", " ", "o", "k">>),
       make_tc(T_TITLE, T_PRECONDITIONS, 3, <<"W", "o", "r", "k", "s", " ", "f", "i", "n", "e",
           " ", "a", "n", "d", " ", "s", "u", "c", "c", "e", "s", "s", " ", "i", "s", " ", "s",
           "h", "o", "w", "n">>),
       make_tc(T_TITLE, <<"N", "/", "A">>, 3, T_RESULT),
       make_tc(T_TITLE, <<"t", "h", "e", " ", "u", "s", "e", "r", " ", "i", "s", " ", "l", "o",
           "g", "g", "e", "d", " ", "i", "n">>, 3, T_RESULT),
       make_tc(T_TITLE, <<"n", "o", "n", "e">>, 3, T_RESULT),
       make_tc(<<"L", "o", "g", "i", "n">>, T_PADDED, 2, T_RESULT_36),
       make_tc(<<"L", "o", "g", "o", "u", "t">>, T_PADDED, 2, T_RESULT_36),
       make_tc(<<"S", "i", "g", "n", "u", "p">>, T_PADDED, 2, T_RESULT_36),
       make_tc(<<" ", " ", " ", " ", " ">>, T_PRECOND_26, 2, T_RESULT_36),
       make_tc(<<" ", " ", " ", " ", " ", " ">>, T_PRECOND_26, 2, T_RESULT_36),
       make_tc(<<"L", "o", "g", "i", "n", " ", "O", "K", " ", "o", "k", "a", "y">>, T_PRECOND_25,
           4, T_RESULT_35),
       make_tc(<<"l", "o", "g", "i", "n">>, <<" ", " ", "n", "/", "a", " ", " ">>, 2,
           T_RESULT_DONE) >>

RECURSIVE Ascending(_)
\* The ascending lists of m indices of the pool.
Ascending(m) ==
    IF m = 0 THEN {<<>>}
    ELSE {Append(q[1], q[2]) : q \in
            {r \in Ascending(m - 1) \X (1..Len(ScorerPool)) :
                r[1] = <<>> \/ r[1][Len(r[1])] <= r[2]}}

\* The lists of 1 to n cases of the pool, in the order of the pool.
CaseLists(n) ==
    {[k \in 1..Len(f) |-> ScorerPool[f[k]]] : f \in UNION {Ascending(m) : m \in 1..n}}

ScorerInit ==
    /\ op = "input"
    /\ stop_reason = ""
    /\ stripped = <<>>
    /\ repaired = NoRepair
    /\ parsed = NoParse
    /\ reparsed = NoReparse
    /\ raw = <<>>
    /\ origin = <<>>
    /\ family = "make_tc"
    /\ reports = <<>>
    /\ tcs \in CaseLists(MaxCases)

\* TestCase(**args) for each element, then score_test_cases of the list; a
\* TestCase that does not validate raises ValidationError.
BuildAndScore(args) ==
    IF \A k \in 1..Len(args) : TestCaseOk(args[k])
    THEN score_test_cases([k \in 1..Len(args) |-> TestCase(args[k])])
    ELSE NoQuality("ValidationError")

\* One more call on the same arguments.
CallScore ==
    /\ Len(reports) < 2
    /\ op' = "score_test_cases"
    /\ reports' = Append(reports, BuildAndScore(tcs))
    /\ UNCHANGED <<raw, origin, family, stop_reason, stripped, repaired, parsed, reparsed, tcs>>
    /\ UNCHANGED orch_vars
    /\ UNCHANGED api_vars

SpecScorerInit == OrchInit /\ ScorerInit

ScorerNext == CallScore

SpecScorer == SpecScorerInit /\ [][ScorerNext]_vars

(***************************************************************************)
(* Properties of generate_test_cases (specification Spec).                 *)
(***************************************************************************)
Ended == pc \in {"returned", "raised"}

AllParseErrors == \A n \in 1..Len(thrown) : thrown[n].kind = "LLMParseError"

C3_RetryThroughLast ==
    LET n == Len(thrown)
    IN  (n >= 1 /\ thrown[n].kind = "LLMParseError" /\ n <= MAX_RETRIES + 1) =>
            (attempt = n + 1 /\ pc \in {"generate", "process"})

\* C3 amended: a parse failure at attempt n <= MAX_RETRIES is followed by
\* attempt n + 1.
C3_RetryWithinBudget ==
    LET n == Len(thrown)
    IN  (n >= 1 /\ thrown[n].kind = "LLMParseError" /\ n <= MAX_RETRIES) =>
            (attempt = n + 1 /\ pc \in {"generate", "process"})

C3_Witness ==
    /\ Len(thrown) = MAX_RETRIES
    /\ thrown[MAX_RETRIES].kind = "LLMParseError"
    /\ attempt = MAX_RETRIES + 1
    /\ pc = "generate"

\* C4: when the last allowed attempt fails with a ParseError, the exception
\* raised is the one that attempt produced, not an earlier one and not the
\* generic substitute.
C4_LastErrorRaised ==
    (pc = "raised" /\ Len(thrown) = MAX_RETRIES + 1
        /\ thrown[MAX_RETRIES + 1].kind = "LLMParseError") =>
            /\ raised = thrown[MAX_RETRIES + 1]
            /\ raised.head # "Generation failed after all retries"

C4_Witness ==
    /\ pc = "raised"
    /\ Len(thrown) = MAX_RETRIES + 1
    /\ thrown[MAX_RETRIES + 1].kind = "LLMParseError"
    /\ thrown[MAX_RETRIES + 1] # thrown[1]
    /\ thrown[MAX_RETRIES + 1] # thrown[MAX_RETRIES]
    /\ raised = thrown[MAX_RETRIES + 1]

SchemaConformant(d) == json_loads(d).ok /\ LLMOutputOk(json_loads(d).val)

\* C6 as stated: for valid schema-conformant JSON and any stop_reason,
\* parse_and_validate returns the content of the unfenced document whether
\* or not the text is fenced, with was_repaired = False.
C6_FencingIrrelevantNoRepair ==
    (op = "parse_and_validate" /\ family = "document" /\ SchemaConformant(origin)) =>
        /\ parsed.ok
        /\ parsed.out = LLMOutput(json_loads(origin).val)
        /\ ~parsed.was_repaired

\* C7 as stated: on input that is already valid JSON, repair_truncated_json
\* returns exactly what a direct parse of that input yields.
C7_RepairIsDirectParseOnValid ==
    (op = "repair_truncated_json" /\ json_loads(raw).ok) =>
        /\ repaired.ok
        /\ repaired.val = json_loads(raw).val

\* raw is the valid document d cut so that only closers are missing.
OnlyClosersMissing(d) ==
    /\ json_loads(d).ok
    /\ Len(raw) >= 1
    /\ Len(raw) < Len(d)
    /\ raw = Take(d, Len(raw))
    /\ \A j \in (Len(raw) + 1)..Len(d) : d[j] \in {"}", "]"}

Count(s, c) == Cardinality({j \in 1..Len(s) : s[j] = c})

\* C8 as stated: when only closing delimiters are missing, repair keeps the
\* text, appends as many of each closer as are missing, and the re-parse
\* succeeds.
C8_ClosersBalanced ==
    (op = "repair_truncated_json" /\ OnlyClosersMissing(origin)) =>
        /\ repaired.ok
        /\ Len(repaired.text) = Len(origin)
        /\ Take(repaired.text, Len(raw)) = raw
        /\ \A c \in {"}", "]"} :
              Count(Drop(repaired.text, Len(raw) + 1), c) = Count(Drop(origin, Len(raw) + 1), c)

\* C9 as stated: for valid JSON with one dangling comma before a closer,
\* repair returns the object graph of the document without the comma.
C9_DanglingCommaRemoved ==
    (op = "repair_truncated_json" /\ family = "dangling_comma") =>
        /\ repaired.ok
        /\ repaired.val = json_loads(origin).val

\* C10 as stated: for input that is not JSON at all, parse_and_validate
\* tries repair and raises LLMParseError whose message is non-empty and
\* holds the stop_reason and the first RAW_EXCERPT characters of raw.
C10_GarbageDiagnostics ==
    (op = "parse_and_validate" /\ family = "prose") =>
        /\ ~parsed.ok
        /\ parsed.repair_tried
        /\ parsed.err.kind = "LLMParseError"
        /\ parsed.err.head # ""
        /\ parsed.err.stop_reason = <<stop_reason>>
        /\ parsed.err.raw = <<Take(raw, RAW_EXCERPT)>>

\* C11: a parseable object graph that the schema rejects (no object, missing
\* key, wrong types, lengths out of range, blank steps) makes
\* parse_and_validate raise LLMParseError and nothing else, for every
\* stop_reason and fencing; the orchestrator retries on it.
C11_StructuralFailureIsParseError ==
    (op = "parse_and_validate" /\ family = "schema" /\ ~SchemaConformant(origin)) =>
        /\ ~parsed.ok
        /\ parsed.err.kind = "LLMParseError"
        /\ Handler(parsed.err.kind) = "retry"

C11_Witness ==
    /\ op = "parse_and_validate"
    /\ family = "schema"
    /\ origin = Doc(4)
    /\ raw # origin
    /\ stop_reason = "length"
    /\ ~parsed.ok
    /\ parsed.err.kind = "LLMParseError"

\* C12 as stated: every LLMParseError that leaves generate_test_cases once
\* the retries are used up, from a syntax failure or from a schema failure,
\* holds a message, the stop_reason of the last completion and the first
\* RAW_EXCERPT characters of its text.
C12_ExhaustedErrorDiagnostics ==
    (pc = "raised" /\ raised.kind = "LLMParseError" /\ parses = MAX_RETRIES + 1) =>
        /\ raised.head # ""
        /\ raised.stop_reason = <<llm_resp.stop_reason>>
        /\ raised.raw = <<Take(llm_resp.text, RAW_EXCERPT)>>

\* A returned test case within every bound of the schema.
WithinBounds(tc) ==
    /\ Len(tc.title) \in TITLE_MIN..TITLE_MAX
    /\ Len(tc.preconditions) \in PRECONDITIONS_MIN..PRECONDITIONS_MAX
    /\ Len(tc.steps) \in STEPS_MIN..STEPS_MAX
    /\ \A n \in 1..Len(tc.steps) : \E j \in 1..Len(tc.steps[n]) : tc.steps[n][j] \notin Whitespace
    /\ Len(tc.expected_result) \in EXPECTED_RESULT_MIN..EXPECTED_RESULT_MAX

\* The returned test case tc holds the field values of the input element v.
FieldsKept(tc, v) ==
    /\ IsObj(v)
    /\ \A k \in FieldKeys : HasKey(v[2], k)
    /\ Str(tc.title) = GetKey(v[2], K_title)
    /\ Str(tc.preconditions) = GetKey(v[2], K_preconditions)
    /\ Arr([n \in 1..Len(tc.steps) |-> Str(tc.steps[n])]) = GetKey(v[2], K_steps)
    /\ Str(tc.expected_result) = GetKey(v[2], K_expected_result)

\* The text field k of the input element v, when it is one, breaks lo..hi.
TextOutside(v, k, lo, hi) ==
    /\ HasKey(v[2], k)
    /\ IsStr(GetKey(v[2], k))
    /\ Len(GetKey(v[2], k)[2]) \notin lo..hi

\* The input element v breaks a bound.
BreaksBound(v) ==
    /\ IsObj(v)
    /\ \/ TextOutside(v, K_title, TITLE_MIN, TITLE_MAX)
       \/ TextOutside(v, K_preconditions, PRECONDITIONS_MIN, PRECONDITIONS_MAX)
       \/ TextOutside(v, K_expected_result, EXPECTED_RESULT_MIN, EXPECTED_RESULT_MAX)
       \/ /\ HasKey(v[2], K_steps)
          /\ IsArr(GetKey(v[2], K_steps))
          /\ \/ Len(GetKey(v[2], K_steps)[2]) \notin STEPS_MIN..STEPS_MAX
             \/ \E n \in 1..Len(GetKey(v[2], K_steps)[2]) :
                    GetKey(v[2], K_steps)[2][n] \in {Str(<<>>), Str(<<" ", "\t">>)}

\* The result r of parse_and_validate on a document whose value is data.
AllOrNothing(r, data) ==
    /\ r.ok =>
        /\ Len(r.out) >= TEST_CASES_MIN
        /\ \A n \in 1..Len(r.out) : WithinBounds(r.out[n])
        /\ IsObj(data)
        /\ HasKey(data[2], K_test_cases)
        /\ Len(r.out) = Len(GetKey(data[2], K_test_cases)[2])
        /\ \A n \in 1..Len(r.out) : FieldsKept(r.out[n], GetKey(data[2], K_test_cases)[2][n])
    /\ ( /\ IsObj(data)
         /\ HasKey(data[2], K_test_cases)
         /\ IsArr(GetKey(data[2], K_test_cases))
         /\ \/ Len(GetKey(data[2], K_test_cases)[2]) < TEST_CASES_MIN
            \/ \E n \in 1..Len(GetKey(data[2], K_test_cases)[2]) :
                    BreaksBound(GetKey(data[2], K_test_cases)[2][n]) )
       => ~r.ok

\* C13: whenever parse_and_validate returns a set it is non-empty, every
\* case of it is within the bounds of the schema (title, preconditions,
\* expected_result lengths, 2 to 4 non-blank steps) and holds the very field
\* values of the parsed input, as many cases as the input has; and when one
\* case of the input breaks a bound nothing is returned.
C13_ValidationAllOrNothing ==
    (op = "parse_and_validate" /\ family = "schema") =>
        AllOrNothing(parsed, json_loads(origin).val)

C13_Witness ==
    /\ op = "parse_and_validate"
    /\ family = "schema"
    /\ origin = json_dumps(MkOutput(<<CaseB, WithField(CaseA, K_title, StrOfLen(TITLE_MAX))>>))
    /\ parsed.ok
    /\ Len(parsed.out) = 2
    /\ Len(parsed.out[2].title) = TITLE_MAX

\* C14: in every execution score_test_cases is called at most once, only
\* after parse_and_validate of the same attempt returned, on the very set it
\* returned, and that set holds at least one test case, so that the division
\* by the case count never raises.
C14_ScoreOnlyAfterValidParse ==
    /\ scores <= 1
    /\ scores <= parses
    /\ \A n \in 1..Len(thrown) : thrown[n].kind # "ZeroDivisionError"
    /\ (pc = "returned") = (scores = 1)
    /\ scores = 1 =>
        /\ thrown[attempts] = NoError
        /\ parses = attempts
        /\ parse_and_validate(llm_resp.text, llm_resp.stop_reason).ok
        /\ response.test_cases = parse_and_validate(llm_resp.text, llm_resp.stop_reason).out
        /\ Len(response.test_cases) >= TEST_CASES_MIN
        /\ response.quality.ok

C14_Witness ==
    /\ pc = "returned"
    /\ scores = 1
    /\ attempts = 2
    /\ thrown[1].kind = "LLMParseError"
    /\ Len(response.test_cases) = 1
    /\ response.quality.ok
    /\ response.quality.score > 0

\* C15: strip_fences applied to its own result gives that result again: the
\* result holds no fence mark and no whitespace at either end.
C15_StripFencesIdempotent ==
    /\ (family = "stripped" /\ op = "strip_fences") => stripped = raw
    /\ (family = "stripped") =>
        /\ \A i \in 1..Len(raw) : ~StartsWithAt(raw, i, FenceMark)
        /\ raw # <<>> => (raw[1] \notin Whitespace /\ raw[Len(raw)] \notin Whitespace)

C15_Witness ==
    /\ family = "stripped"
    /\ op = "strip_fences"
    /\ origin = <<" ">> \o FenceMark \o JsonTag \o <<BTICK>>
    /\ raw = <<BTICK>>
    /\ stripped = raw

(***************************************************************************)
(* Properties of score_test_cases (specification SpecScorer).              *)
(***************************************************************************)
\* Every TestCase(...) call of the list validates.
AllBuilt == \A k \in 1..Len(tcs) : TestCaseOk(tcs[k])

\* The argument k of the TestCase(...) call v.
Arg(v, k) == GetKey(v[2], k)[2]

InUnit(x) == x \in 0..DECIMALS_4

C17_LabelFromPctScoreWeighted ==
    family = "make_tc" =>
        \A n \in 1..Len(reports) : reports[n].ok =>
            /\ (reports[n].label = "Alta calidad") = (PyRound(reports[n].score, 100) >= 75)
            /\ (reports[n].label = "Calidad media") =
                    (PyRound(reports[n].score, 100) >= 50 /\ PyRound(reports[n].score, 100) < 75)
            /\ (reports[n].label = "Mejorable") = (PyRound(reports[n].score, 100) < 50)
            /\ 100 * reports[n].score - 100 <=
                    20 * reports[n].dimensions.quantity + 25 * reports[n].dimensions.steps_depth
                    + 20 * reports[n].dimensions.preconditions
                    + 20 * reports[n].dimensions.expected_results
                    + 15 * reports[n].dimensions.diversity
            /\ 100 * reports[n].score + 100 >=
                    20 * reports[n].dimensions.quantity + 25 * reports[n].dimensions.steps_depth
                    + 20 * reports[n].dimensions.preconditions
                    + 20 * reports[n].dimensions.expected_results
                    + 15 * reports[n].dimensions.diversity

C17_Witness ==
    /\ family = "make_tc"
    /\ Len(reports) >= 1
    /\ reports[1].ok
    /\ PyRound(reports[1].score, 100) = 75
    /\ reports[1].label = "Alta calidad"

\* The list holds 4 valid test cases with pairwise distinct titles whose
\* expected results hold no vague word and are longer than 35 characters.
FourDistinctNonVague ==
    /\ family = "make_tc"
    /\ Len(tcs) = 4
    /\ AllBuilt
    /\ \A j, k \in 1..4 : j # k => Arg(tcs[j], K_title) # Arg(tcs[k], K_title)
    /\ \A k \in 1..4 :
        /\ VagueCount(LowerText(Arg(tcs[k], K_expected_result))) = 0
        /\ Len(Arg(tcs[k], K_expected_result)) > 35

\* The report of every call made: score >= 0.70 and the label Alta calidad.
AllHigh ==
    \A n \in 1..Len(reports) :
        /\ reports[n].ok
        /\ reports[n].score >= 7000
        /\ reports[n].label = "Alta calidad"

C19_VagueResultsBelow ==
    ( /\ family = "make_tc"
      /\ AllBuilt
      /\ \A k \in 1..Len(tcs) : VagueCount(LowerText(Arg(tcs[k], K_expected_result))) >= 1 )
    => \A n \in 1..Len(reports) :
            reports[n].ok /\ reports[n].dimensions.expected_results < 8000

C19_Witness ==
    /\ family = "make_tc"
    /\ tcs = <<ScorerPool[5], ScorerPool[6]>>
    /\ Len(reports) >= 1
    /\ reports[1].ok
    /\ reports[1].dimensions.expected_results < 8000

\* C20 as stated: a list of TestCases whose preconditions are all generic
\* placeholders of the detector can be built and scored, and its reported
\* preconditions dimension is < 0.5.
C20_GenericPreconditionsScored ==
    ( /\ family = "make_tc"
      /\ \A k \in 1..Len(tcs) :
            LowerText(PyStrip(Arg(tcs[k], K_preconditions))) \in GENERIC_PRECOND )
    => \A n \in 1..Len(reports) :
            reports[n].ok /\ reports[n].dimensions.preconditions < 5000

(***************************************************************************)
(* Properties of the request around generate_test_cases (specifications    *)
(* Spec and FairSpec).                                                     *)
(***************************************************************************)
\* C21: every way a request ends has one response class: a timeout fault
\* gives 504, a network fault 502, a ParseError (raised only once the
\* retries are used up) 502 whose detail carries the error's message, and
\* every other fault, an upstream HTTP fault included, 500 with the fixed
\* detail and nothing of the fault.
C21_OutcomeResponseClass ==
    (pc = "raised" /\ http # NoHttp) =>
        CASE raised.kind = "LLMTimeoutError" -> http.status = 504
          [] raised.kind = "LLMNetworkError" -> http.status = 502
          [] raised.kind = "LLMParseError" ->
                /\ http.status = 502
                /\ calls = MAX_RETRIES + 1
                /\ http.error = raised
                /\ raised.head # ""
          [] OTHER ->
                /\ http.status = 500
                /\ http.detail = "Internal server error"
                /\ http.error = NoError
                /\ http.body = NoResponse

C21_Witness ==
    /\ pc = "raised"
    /\ raised.kind = "LLMAPIError"
    /\ raised.head = "OpenAI returned HTTP 429"
    /\ http.status = 500
    /\ http.error = NoError

\* C22: the client of a request is closed at most once, every request
\* reaches the state where it has been closed exactly once and stays there,
\* whichever way the request ends, and every generation call is made while
\* the client is open.
C22_ClientClosedOnce ==
    /\ [](closes <= 1)
    /\ [](closes = 1 <=> client = "closed")
    /\ [][calls' # calls => (client = "open" /\ client' = "open")]_vars
    /\ <>[](closes = 1 /\ client = "closed" /\ route # NoRoute)

C22_Witness ==
    /\ route.kind = "unhandled"
    /\ route.error.kind = "Exception"
    /\ calls = 2
    /\ closes = 1
    /\ client = "closed"

\* The response holds what the attempt that received resp produced: r is
\* the result of parse_and_validate on resp, q the score of its test cases.
FromAttempt(out, resp, r, q) ==
    /\ r.ok
    /\ q.ok
    /\ out.test_cases = r.out
    /\ out.quality = q
    /\ out.meta.was_repaired = r.was_repaired
    /\ out.meta.model = resp.model
    /\ out.meta.stop_reason = resp.stop_reason

FromParse(out, resp, r) == FromAttempt(out, resp, r, score_test_cases(r.out))

\* C23: in a returned response, attempts is the number of generation calls
\* made, between 1 and MAX_RETRIES + 1; every attempt before the last one
\* raised LLMParseError; and test_cases, quality, model, stop_reason and
\* was_repaired are those of the last attempt's completion alone.
C23_OutcomeFromSucceedingAttempt ==
    pc = "returned" =>
        /\ response.meta.attempts = calls
        /\ calls \in 1..(MAX_RETRIES + 1)
        /\ Len(thrown) = calls
        /\ thrown[calls] = NoError
        /\ \A n \in 1..(calls - 1) : thrown[n].kind = "LLMParseError"
        /\ FromParse(response, llm_resp,
                     parse_and_validate(llm_resp.text, llm_resp.stop_reason))

\* Success at the third attempt, on a completion cut by the token limit,
\* after a completion with another stop reason and one the schema rejected.
C23_Witness ==
    /\ pc = "returned"
    /\ calls = MAX_RETRIES + 1
    /\ response.meta.attempts = MAX_RETRIES + 1
    /\ response.meta.stop_reason = "length"
    /\ response.meta.was_repaired
    /\ Len(response.test_cases) = 1
    /\ thrown[1].stop_reason = <<"stop">>
    /\ thrown[2].head = "Structural validation failed"

(***************************************************************************)
(* Properties of repair_truncated_json and parse_and_validate              *)
(* (specification SpecValidator), continued.                               *)
(***************************************************************************)
\* The delimiter the for-loop of the scan counts at a character, given the
\* result x of its iteration there (none inside a string literal).
StepDelim(x) ==
    IF x.braces = 1 THEN <<"{">>
    ELSE IF x.braces = -1 THEN <<"}">>
    ELSE IF x.brackets = 1 THEN <<"[">>
    ELSE IF x.brackets = -1 THEN <<"]">>
    ELSE <<>>

DelimStep(in_str, esc, ch) ==
    [in_str |-> ScanStep(in_str, esc, ch).in_str, esc |-> ScanStep(in_str, esc, ch).esc,
     ds |-> StepDelim(ScanStep(in_str, esc, ch))]

DelimThen(l, r, n) ==
    [in_str |-> r[FlagIndex(l[n].in_str, l[n].esc)].in_str,
     esc    |-> r[FlagIndex(l[n].in_str, l[n].esc)].esc,
     ds     |-> l[n].ds \o r[FlagIndex(l[n].in_str, l[n].esc)].ds]

DelimJoin(l, r) == << DelimThen(l, r, 1), DelimThen(l, r, 2), DelimThen(l, r, 3), DelimThen(l, r, 4) >>

RECURSIVE DelimRange(_, _, _)
\* The delimiters of s[lo..hi] the scan counts, in order, for each of the
\* four entry values of its flags.
DelimRange(s, lo, hi) ==
    IF lo > hi
    THEN << [in_str |-> FALSE, esc |-> FALSE, ds |-> <<>>],
            [in_str |-> FALSE, esc |-> TRUE,  ds |-> <<>>],
            [in_str |-> TRUE,  esc |-> FALSE, ds |-> <<>>],
            [in_str |-> TRUE,  esc |-> TRUE,  ds |-> <<>>] >>
    ELSE IF lo = hi
    THEN << DelimStep(FALSE, FALSE, s[lo]), DelimStep(FALSE, TRUE, s[lo]),
            DelimStep(TRUE, FALSE, s[lo]),  DelimStep(TRUE, TRUE, s[lo]) >>
    ELSE DelimJoin(DelimRange(s, lo, (lo + hi) \div 2),
                   DelimRange(s, (lo + hi) \div 2 + 1, hi))

\* The delimiters of s outside its string literals.
Delims(s) == DelimRange(s, 1, Len(s))[FlagIndex(FALSE, FALSE)].ds

RECURSIVE Unclosed(_, _, _)
\* The open structures after the delimiters ds[k..], outermost first, given
\* those open before.
Unclosed(ds, k, open) ==
    IF k > Len(ds) THEN open
    ELSE IF ds[k] \in {"{", "["} THEN Unclosed(ds, k + 1, Append(open, ds[k]))
    ELSE IF open = <<>> THEN Unclosed(ds, k + 1, open)
    ELSE Unclosed(ds, k + 1, SubSeq(open, 1, Len(open) - 1))

OpenStructures(s) == Unclosed(Delims(s), 1, <<>>)

\* The closers of the open structures, innermost first.
InnermostFirst(open) ==
    [k \in 1..Len(open) |-> IF open[Len(open) + 1 - k] = "{" THEN "}" ELSE "]"]

\* An open { lies inside an open [.
BraceInsideBracket(open) ==
    \E i \in 1..Len(open) : \E j \in (i + 1)..Len(open) : open[i] = "[" /\ open[j] = "{"

\* The rewritten text t closed innermost first.
ClosedInnermostFirst(t) == StripCommaBeforeCloser(t \o InnermostFirst(OpenStructures(t)))

\* C24 as stated: when the text that is left after the rewrites of a
\* truncated input has an open { inside an open [, the closers appended are
\* those of its open structures, innermost first, and the result parses.
C24_ClosersInnermostFirst ==
    ( /\ op = "repair_truncated_json"
      /\ family \in {"short", "truncated"}
      /\ ~repaired.direct
      /\ BraceInsideBracket(OpenStructures(RewriteTail(strip_fences(raw)))) )
    => /\ repaired.text = ClosedInnermostFirst(RewriteTail(strip_fences(raw)))
       /\ repaired.ok

\* Steps (a) to (c) of the repair: the three rewrites anchored at the end.
TailSteps(s) == StripIncompleteKey(StripKeyNoValue(StripTruncatedString(s)))

\* Index of the last quote character of s (0 when it has none).
LastQuote(s) ==
    IF \A i \in 1..Len(s) : s[i] # QUOTE THEN 0
    ELSE CHOOSE i \in 1..Len(s) :
            s[i] = QUOTE /\ \A j \in (i + 1)..Len(s) : s[j] # QUOTE

\* The last quote character of s closes a complete string literal: s has a
\* quote and a scan of s ends outside any string.
EndsAfterCompleteLiteral(s) == LastQuote(s) > 0 /\ ~CountUnmatched(s).in_str

\* t equals s up to and including the last quote of s.
KeptThroughLastQuote(s, t) == Take(t, LastQuote(s)) = Take(s, LastQuote(s))

\* C25 as stated: when the last quote character of the text closes a
\* complete string literal, steps (a) to (c) leave that literal and all that
\* precedes it unchanged.
C25_TailStepsKeepCompleteLiterals ==
    ( /\ op = "repair_truncated_json"
      /\ ~repaired.direct
      /\ EndsAfterCompleteLiteral(strip_fences(raw)) )
    => KeptThroughLastQuote(strip_fences(raw), TailSteps(strip_fences(raw)))

\* Index of the first c in s after index p (Len(s) + 1 when there is none).
NextAt(s, c, p) ==
    IF \A q \in (p + 1)..Len(s) : s[q] # c THEN Len(s) + 1
    ELSE CHOOSE q \in (p + 1)..Len(s) : s[q] = c /\ \A j \in (p + 1)..(q - 1) : s[j] # c

RECURSIVE MatchRange(_, _, _, _, _)
\* Where the leftmost embedding of t[lo..hi] into s after index p ends.
MatchRange(s, t, lo, hi, p) ==
    IF p > Len(s) \/ lo > hi THEN p
    ELSE IF lo = hi THEN NextAt(s, t[lo], p)
    ELSE MatchRange(s, t, (lo + hi) \div 2 + 1, hi,
                    MatchRange(s, t, lo, (lo + hi) \div 2, p))

\* t is s with characters deleted.
ByDeletions(t, s) == MatchRange(s, t, 1, Len(t), 0) <= Len(s)

\* Length of t without the closers it ends with.
BeforeClosers(t) ==
    IF \A i \in 1..Len(t) : t[i] \in {"]", "}"} THEN 0
    ELSE CHOOSE i \in 1..Len(t) :
            t[i] \notin {"]", "}"} /\ \A j \in (i + 1)..Len(t) : t[j] \in {"]", "}"}

\* t is s with characters deleted, then closers appended.
DeletionsThenClosers(t, s) ==
    \E k \in BeforeClosers(t)..Len(t) : ByDeletions(Take(t, k), s)

RECURSIVE Literals(_)
\* The keys and scalar values of the object graph v, as JSON literals.
Literals(v) ==
    CASE v[1] = "str" -> {DumpStr(v[2])}
      [] v[1] = "num" -> {v[2]}
      [] v[1] = "lit" -> {LitText(v[2][1])}
      [] v[1] = "arr" -> UNION {Literals(v[2][n]) : n \in 1..Len(v[2])}
      [] v[1] = "obj" ->
            UNION {{DumpStr(v[2][n][1])} \cup Literals(v[2][n][2]) : n \in 1..Len(v[2])}

\* The literal w occurs in the text s.
OccursIn(s, w) == \E i \in 1..Len(s) : StartsWithAt(s, i, w)

\* C26 as stated: the text a repair finally parses is the fence-stripped
\* input with characters deleted and closers appended, and every key and
\* scalar value of the repaired object graph occurs in the input.
C26_RepairNeverFabricates ==
    (op = "repair_truncated_json" /\ repaired.ok /\ ~repaired.direct) =>
        /\ DeletionsThenClosers(repaired.text, strip_fences(raw))
        /\ \A w \in Literals(repaired.val) : OccursIn(strip_fences(raw), w)

\* Two results of parse_and_validate agree in all but the was_repaired flag
\* and the text of the error: both raise LLMParseError, or both return the
\* same LLMOutput.
SameParse(a, b) ==
    /\ a.ok = b.ok
    /\ a.ok => a.out = b.out
    /\ ~a.ok => (a.err.kind = "LLMParseError" /\ b.err.kind = "LLMParseError")

====
